---- MODULE Spec2Model ----
(***************************************************************************)
(* A model of the jvm-r interpreter: the class registry, the constant-pool *)
(* resolution cache, the heap, the thread's frame stack and the            *)
(* fetch/decode/execute loop of JVM::run_class.                            *)
(*                                                                         *)
(* Conventions.  Rust vectors are 0-based, TLA+ sequences 1-based: element *)
(* i of a vector is element i + 1 of the sequence modelling it.  A panic   *)
(* (unwrap on None, index out of range, panic!, unimplemented!, integer    *)
(* overflow in a checked build) ends the process: the model sets status to *)
(* "aborted" and leaves the rest of the machine as it was before the step. *)
(***************************************************************************)
EXTENDS Integers, Sequences, FiniteSets, TLC

\* Bound of the model: the number of loop iterations of run_class explored.
MaxSteps == 20

(***************************************************************************)
(* Fixed-width two's-complement arithmetic.  TLC's integers are 32 bits    *)
(* wide and trap on overflow, so an i32 / i64 is computed on little-endian *)
(* sequences of 16-bit limbs (2 limbs for i32, 4 for i64); an i32 is kept  *)
(* as an ordinary integer in a JValue, an i64 as its 4 limbs.              *)
(***************************************************************************)
LimbBase == 65536
LimbSign == 32768
I32_MAX == 2147483647
I32_MIN == (-2147483647) - 1

ToLimbs32(a) == << a % LimbBase, (a \div LimbBase) % LimbBase >>

FromLimbs32(l) ==
  LET hi == IF l[2] >= LimbSign THEN l[2] - LimbBase ELSE l[2]
  IN  hi * LimbBase + l[1]

ZeroL(n) == [i \in 1..n |-> 0]

SignL(a) == a[Len(a)] >= LimbSign

\* a sign-extended to n limbs
SignExtendL(a, n) ==
  [i \in 1..n |-> IF i <= Len(a) THEN a[i]
                  ELSE IF SignL(a) THEN LimbBase - 1 ELSE 0]

\* value as i64
I32ToL64(a) == SignExtendL(ToLimbs32(a), 4)

\* a + b + c with carry-in c, truncated to Len(a) limbs (wrapping_add)
RECURSIVE AddL(_, _, _)
AddL(a, b, c) ==
  IF a = << >> THEN << >>
  ELSE LET s == a[1] + b[1] + c
       IN  << s % LimbBase >> \o AddL(Tail(a), Tail(b), s \div LimbBase)

NotL(a) == [i \in 1..Len(a) |-> (LimbBase - 1) - a[i]]
NegL(a) == AddL(NotL(a), ZeroL(Len(a)), 1)
SubL(a, b) == AddL(a, NotL(b), 1)

\* a * m + c for a small multiplier m (m <= 256), truncated to Len(a) limbs
RECURSIVE MulSmallL(_, _, _)
MulSmallL(a, m, c) ==
  IF a = << >> THEN << >>
  ELSE LET s == a[1] * m + c
       IN  << s % LimbBase >> \o MulSmallL(Tail(a), m, s \div LimbBase)

\* a * (limbs j.. of b), truncated to Len(a) limbs
RECURSIVE MulAccL(_, _, _)
MulAccL(a, b, j) ==
  IF j > Len(b) THEN ZeroL(Len(a))
  ELSE LET d == b[j]
           byLimb == AddL(MulSmallL(a, d % 256, 0),
                          MulSmallL(MulSmallL(a, d \div 256, 0), 256, 0), 0)
           shifted == [i \in 1..Len(a) |->
                         IF i <= j - 1 THEN 0 ELSE byLimb[i - (j - 1)]]
       IN  AddL(shifted, MulAccL(a, b, j + 1), 0)

\* the low Len(a) limbs of a * b (wrapping_mul)
MulL(a, b) == MulAccL(a, b, 1)

\* unsigned comparison a >= b, from the most significant limb down
RECURSIVE GeqL(_, _, _)
GeqL(a, b, i) ==
  IF i = 0 THEN TRUE
  ELSE IF a[i] > b[i] THEN TRUE
  ELSE IF a[i] < b[i] THEN FALSE
  ELSE GeqL(a, b, i - 1)

\* unsigned long division, one bit of the dividend at a time, for the bits
\* k down to stop: returns << quotient, remainder >>
RECURSIVE UDivBitsL(_, _, _, _, _)
UDivBitsL(a, b, k, stop, qr) ==
  IF k < stop THEN qr
  ELSE LET bit == (a[(k \div 16) + 1] \div (2 ^ (k % 16))) % 2
           r2 == MulSmallL(qr[2], 2, bit)
       IN  IF GeqL(r2, b, Len(b))
           THEN UDivBitsL(a, b, k - 1, stop,
                          << MulSmallL(qr[1], 2, 1), SubL(r2, b) >>)
           ELSE UDivBitsL(a, b, k - 1, stop, << MulSmallL(qr[1], 2, 0), r2 >>)

\* the same over the limbs i down to 1 of the dividend
RECURSIVE UDivModL(_, _, _, _)
UDivModL(a, b, i, qr) ==
  IF i = 0 THEN qr
  ELSE UDivModL(a, b, i - 1, UDivBitsL(a, b, 16 * i - 1, 16 * (i - 1), qr))

\* signed division truncating towards zero and the remainder with the sign
\* of the dividend (Rust `/` and `%`), b # 0: << quotient, remainder >>
DivRemL(a, b) ==
  LET n == Len(a)
      abs(x) == IF SignL(x) THEN NegL(x) ELSE x
      qr == UDivModL(abs(a), abs(b), n, << ZeroL(n), ZeroL(n) >>)
  IN  << IF SignL(a) # SignL(b) THEN NegL(qr[1]) ELSE qr[1],
         IF SignL(a) THEN NegL(qr[2]) ELSE qr[2] >>

\* does the mathematical result of the operation leave the signed range of
\* the width?  ("neg" and "div" are the only cases of one value: MIN)
OverflowsL(op, a, b) ==
  LET n == Len(a)
      min == [i \in 1..n |-> IF i = n THEN LimbSign ELSE 0]
      wide == MulL(SignExtendL(a, 2 * n), SignExtendL(b, 2 * n))
  IN  CASE op = "add" -> SignL(a) = SignL(b) /\ SignL(AddL(a, b, 0)) # SignL(a)
        [] op = "sub" -> SignL(a) # SignL(b) /\ SignL(SubL(a, b)) # SignL(a)
        [] op = "mul" -> wide # SignExtendL(SubSeq(wide, 1, n), 2 * n)
        [] op = "neg" -> a = min
        [] op = "div" -> a = min /\ b = [i \in 1..n |-> LimbBase - 1]

(***************************************************************************)
(* Instruction decoding: JVM::parse_opcode.  OpTable lists, for the opcode *)
(* bytes 0x00..0xCA in order, the Opcode variant and the operand layout    *)
(* the decoder reads after the opcode byte.                                *)
(***************************************************************************)
OpTable ==
  <<
    [name |-> "Nop", fmt |-> "none"], [name |-> "AConstNull", fmt |-> "none"],
    [name |-> "IConstM1", fmt |-> "none"], [name |-> "IConst0", fmt |-> "none"],
    [name |-> "IConst1", fmt |-> "none"], [name |-> "IConst2", fmt |-> "none"],
    [name |-> "IConst3", fmt |-> "none"], [name |-> "IConst4", fmt |-> "none"],
    [name |-> "IConst5", fmt |-> "none"], [name |-> "LConst0", fmt |-> "none"],
    [name |-> "LConst1", fmt |-> "none"], [name |-> "FConst0", fmt |-> "none"],
    [name |-> "FConst1", fmt |-> "none"], [name |-> "FConst2", fmt |-> "none"],
    [name |-> "DConst0", fmt |-> "none"], [name |-> "DConst1", fmt |-> "none"],
    [name |-> "BIPush", fmt |-> "i8"], [name |-> "SIPush", fmt |-> "i16"],
    [name |-> "Ldc", fmt |-> "u8"], [name |-> "LdcW", fmt |-> "u16"],
    [name |-> "Ldc2W", fmt |-> "u16"], [name |-> "ILoad", fmt |-> "u8"],
    [name |-> "LLoad", fmt |-> "u8"], [name |-> "FLoad", fmt |-> "u8"],
    [name |-> "DLoad", fmt |-> "u8"], [name |-> "ALoad", fmt |-> "u8"],
    [name |-> "ILoad0", fmt |-> "none"], [name |-> "ILoad1", fmt |-> "none"],
    [name |-> "ILoad2", fmt |-> "none"], [name |-> "ILoad3", fmt |-> "none"],
    [name |-> "LLoad0", fmt |-> "none"], [name |-> "LLoad1", fmt |-> "none"],
    [name |-> "LLoad2", fmt |-> "none"], [name |-> "LLoad3", fmt |-> "none"],
    [name |-> "FLoad0", fmt |-> "none"], [name |-> "FLoad1", fmt |-> "none"],
    [name |-> "FLoad2", fmt |-> "none"], [name |-> "FLoad3", fmt |-> "none"],
    [name |-> "DLoad0", fmt |-> "none"], [name |-> "DLoad1", fmt |-> "none"],
    [name |-> "DLoad2", fmt |-> "none"], [name |-> "DLoad3", fmt |-> "none"],
    [name |-> "ALoad0", fmt |-> "none"], [name |-> "ALoad1", fmt |-> "none"],
    [name |-> "ALoad2", fmt |-> "none"], [name |-> "ALoad3", fmt |-> "none"],
    [name |-> "IALoad", fmt |-> "none"], [name |-> "LALoad", fmt |-> "none"],
    [name |-> "FALoad", fmt |-> "none"], [name |-> "DALoad", fmt |-> "none"],
    [name |-> "AALoad", fmt |-> "none"], [name |-> "BALoad", fmt |-> "none"],
    [name |-> "CALoad", fmt |-> "none"], [name |-> "SALoad", fmt |-> "none"],
    [name |-> "IStore", fmt |-> "u8"], [name |-> "LStore", fmt |-> "u8"],
    [name |-> "FStore", fmt |-> "u8"], [name |-> "DStore", fmt |-> "u8"],
    [name |-> "AStore", fmt |-> "u8"], [name |-> "IStore0", fmt |-> "none"],
    [name |-> "IStore1", fmt |-> "none"], [name |-> "IStore2", fmt |-> "none"],
    [name |-> "IStore3", fmt |-> "none"], [name |-> "LStore0", fmt |-> "none"],
    [name |-> "LStore1", fmt |-> "none"], [name |-> "LStore2", fmt |-> "none"],
    [name |-> "LStore3", fmt |-> "none"], [name |-> "FStore0", fmt |-> "none"],
    [name |-> "FStore1", fmt |-> "none"], [name |-> "FStore2", fmt |-> "none"],
    [name |-> "FStore3", fmt |-> "none"], [name |-> "DStore0", fmt |-> "none"],
    [name |-> "DStore1", fmt |-> "none"], [name |-> "DStore2", fmt |-> "none"],
    [name |-> "DStore3", fmt |-> "none"], [name |-> "AStore0", fmt |-> "none"],
    [name |-> "AStore1", fmt |-> "none"], [name |-> "AStore2", fmt |-> "none"],
    [name |-> "AStore3", fmt |-> "none"], [name |-> "IAStore", fmt |-> "none"],
    [name |-> "LAStore", fmt |-> "none"], [name |-> "FAStore", fmt |-> "none"],
    [name |-> "DAStore", fmt |-> "none"], [name |-> "AAStore", fmt |-> "none"],
    [name |-> "BAStore", fmt |-> "none"], [name |-> "CAStore", fmt |-> "none"],
    [name |-> "SAStore", fmt |-> "none"], [name |-> "Pop", fmt |-> "none"],
    [name |-> "Pop2", fmt |-> "none"], [name |-> "Dup", fmt |-> "none"],
    [name |-> "DupX1", fmt |-> "none"], [name |-> "DupX2", fmt |-> "none"],
    [name |-> "Dup2", fmt |-> "none"], [name |-> "Dup2X1", fmt |-> "none"],
    [name |-> "Dup2X2", fmt |-> "none"], [name |-> "Swap", fmt |-> "none"],
    [name |-> "IAdd", fmt |-> "none"], [name |-> "LAdd", fmt |-> "none"],
    [name |-> "FAdd", fmt |-> "none"], [name |-> "DAdd", fmt |-> "none"],
    [name |-> "ISub", fmt |-> "none"], [name |-> "LSub", fmt |-> "none"],
    [name |-> "FSub", fmt |-> "none"], [name |-> "DSub", fmt |-> "none"],
    [name |-> "IMul", fmt |-> "none"], [name |-> "LMul", fmt |-> "none"],
    [name |-> "FMul", fmt |-> "none"], [name |-> "DMul", fmt |-> "none"],
    [name |-> "IDiv", fmt |-> "none"], [name |-> "LDiv", fmt |-> "none"],
    [name |-> "FDiv", fmt |-> "none"], [name |-> "DDiv", fmt |-> "none"],
    [name |-> "IRem", fmt |-> "none"], [name |-> "LRem", fmt |-> "none"],
    [name |-> "FRem", fmt |-> "none"], [name |-> "DRem", fmt |-> "none"],
    [name |-> "INeg", fmt |-> "none"], [name |-> "LNeg", fmt |-> "none"],
    [name |-> "FNeg", fmt |-> "none"], [name |-> "DNeg", fmt |-> "none"],
    [name |-> "IShl", fmt |-> "none"], [name |-> "LShl", fmt |-> "none"],
    [name |-> "IShr", fmt |-> "none"], [name |-> "LShr", fmt |-> "none"],
    [name |-> "IUShr", fmt |-> "none"], [name |-> "LUshr", fmt |-> "none"],
    [name |-> "IAnd", fmt |-> "none"], [name |-> "LAnd", fmt |-> "none"],
    [name |-> "IOr", fmt |-> "none"], [name |-> "LOr", fmt |-> "none"],
    [name |-> "IXor", fmt |-> "none"], [name |-> "LXor", fmt |-> "none"],
    [name |-> "IInc", fmt |-> "u8i8"], [name |-> "I2L", fmt |-> "none"],
    [name |-> "I2F", fmt |-> "none"], [name |-> "I2D", fmt |-> "none"],
    [name |-> "L2I", fmt |-> "none"], [name |-> "L2F", fmt |-> "none"],
    [name |-> "L2D", fmt |-> "none"], [name |-> "F2I", fmt |-> "none"],
    [name |-> "F2L", fmt |-> "none"], [name |-> "F2D", fmt |-> "none"],
    [name |-> "D2I", fmt |-> "none"], [name |-> "D2L", fmt |-> "none"],
    [name |-> "D2F", fmt |-> "none"], [name |-> "I2B", fmt |-> "none"],
    [name |-> "I2C", fmt |-> "none"], [name |-> "I2S", fmt |-> "none"],
    [name |-> "LCmp", fmt |-> "none"], [name |-> "FCmpL", fmt |-> "none"],
    [name |-> "FCmpG", fmt |-> "none"], [name |-> "DCmpL", fmt |-> "none"],
    [name |-> "DCmpG", fmt |-> "none"], [name |-> "IfEq", fmt |-> "i16"],
    [name |-> "IfNe", fmt |-> "i16"], [name |-> "IfLt", fmt |-> "i16"],
    [name |-> "IfGe", fmt |-> "i16"], [name |-> "IfGt", fmt |-> "i16"],
    [name |-> "IfLe", fmt |-> "i16"], [name |-> "IfICmpEq", fmt |-> "i16"],
    [name |-> "IfICmpNe", fmt |-> "i16"], [name |-> "IfICmpLt", fmt |-> "i16"],
    [name |-> "IfICmpGe", fmt |-> "i16"], [name |-> "IfICmpGt", fmt |-> "i16"],
    [name |-> "IfICmpLe", fmt |-> "i16"], [name |-> "IfACmpEq", fmt |-> "i16"],
    [name |-> "IfACmpNe", fmt |-> "i16"], [name |-> "Goto", fmt |-> "i16"],
    [name |-> "Jsr", fmt |-> "i16"], [name |-> "Ret", fmt |-> "u8"],
    [name |-> "TableSwitch", fmt |-> "tableswitch"], [name |-> "LookupSwitch", fmt |-> "lookupswitch"],
    [name |-> "IReturn", fmt |-> "none"], [name |-> "LReturn", fmt |-> "none"],
    [name |-> "FReturn", fmt |-> "none"], [name |-> "DReturn", fmt |-> "none"],
    [name |-> "AReturn", fmt |-> "none"], [name |-> "Return", fmt |-> "none"],
    [name |-> "GetStatic", fmt |-> "u16"], [name |-> "PutStatic", fmt |-> "u16"],
    [name |-> "GetField", fmt |-> "u16"], [name |-> "PutField", fmt |-> "u16"],
    [name |-> "InvokeVirtual", fmt |-> "u16"], [name |-> "InvokeSpecial", fmt |-> "u16"],
    [name |-> "InvokeStatic", fmt |-> "u16"], [name |-> "InvokeInterface", fmt |-> "invokeinterface"],
    [name |-> "InvokeDynamic", fmt |-> "u16"], [name |-> "New", fmt |-> "u16"],
    [name |-> "NewArray", fmt |-> "newarray"], [name |-> "ANewArray", fmt |-> "u16"],
    [name |-> "ArrayLength", fmt |-> "none"], [name |-> "AThrow", fmt |-> "none"],
    [name |-> "CheckCast", fmt |-> "u16"], [name |-> "InstanceOf", fmt |-> "u16"],
    [name |-> "MonitorEnter", fmt |-> "none"], [name |-> "MonitorExit", fmt |-> "none"],
    [name |-> "Wide", fmt |-> "wide"], [name |-> "MultiANewArray", fmt |-> "u16u8"],
    [name |-> "IfNull", fmt |-> "i16"], [name |-> "IfNonNull", fmt |-> "i16"],
    [name |-> "GotoW", fmt |-> "i32"], [name |-> "JsrW", fmt |-> "i32"],
    [name |-> "Breakpoint", fmt |-> "none"]
  >>

\* cursor reads of parse_opcode: q is the offset from pc (0 is the opcode
\* byte); a read past the end of the code is Err, which run_class unwraps
HasBytes(code, pc, q, n) == pc + q + n <= Len(code)
ReadU8(code, pc, q) == code[pc + q + 1]
ReadI8(code, pc, q) ==
  IF code[pc + q + 1] >= 128 THEN code[pc + q + 1] - 256 ELSE code[pc + q + 1]
ReadU16(code, pc, q) == ReadU8(code, pc, q) * 256 + ReadU8(code, pc, q + 1)
ReadI16(code, pc, q) == ReadI8(code, pc, q) * 256 + ReadU8(code, pc, q + 1)
ReadI32(code, pc, q) ==
  ReadI8(code, pc, q) * 16777216 + ReadU8(code, pc, q + 1) * 65536
    + ReadU8(code, pc, q + 2) * 256 + ReadU8(code, pc, q + 3)

\* a decoded instruction: the Opcode variant with its operands (x, y, tbl)
\* and the instruction length in bytes
Decoded(op, len, x, y, tbl) ==
  [err |-> FALSE, op |-> op, len |-> len, x |-> x, y |-> y, tbl |-> tbl]
DecodeFail ==
  [err |-> TRUE, op |-> "Fail", len |-> 0, x |-> 0, y |-> 0, tbl |-> << >>]

\* padding of tableswitch / lookupswitch after the opcode byte (jvm.rs:2406)
SwitchPadding(pc) == (4 - ((pc + 1) % 4)) % 4

\* the operand length the decoder adds to len for the fixed layouts
OperandLen(fmt) ==
  CASE fmt = "none" -> 0
    [] fmt \in {"i8", "u8", "newarray"} -> 1
    [] fmt \in {"i16", "u16", "u8i8"} -> 2
    [] fmt = "u16u8" -> 3
    [] fmt \in {"i32", "invokeinterface"} -> 4

parse_tableswitch(code, pc) ==
  LET q == 1 + SwitchPadding(pc)
  IN  IF ~HasBytes(code, pc, q, 12) THEN DecodeFail
      ELSE LET default == ReadI32(code, pc, q)
               low == ReadI32(code, pc, q + 4)
               high == ReadI32(code, pc, q + 8)
               n == high - low + 1
           IN  IF n < 0 \/ ~HasBytes(code, pc, q + 12, 4 * n) THEN DecodeFail
               ELSE Decoded("TableSwitch", SwitchPadding(pc) + 12 + 4 * n + 1,
                            default, << low, high >>,
                            [i \in 1..n |->
                               ReadI32(code, pc, q + 12 + 4 * (i - 1))])

parse_lookupswitch(code, pc) ==
  LET q == 1 + SwitchPadding(pc)
  IN  IF ~HasBytes(code, pc, q, 8) THEN DecodeFail
      ELSE LET default == ReadI32(code, pc, q)
               npairs == ReadI32(code, pc, q + 4)
           IN  IF npairs < 0 \/ ~HasBytes(code, pc, q + 8, 8 * npairs)
               THEN DecodeFail
               ELSE Decoded("LookupSwitch",
                            SwitchPadding(pc) + 8 + 8 * npairs + 1,
                            default, npairs,
                            [i \in 1..npairs |->
                               << ReadI32(code, pc, q + 8 + 8 * (i - 1)),
                                  ReadI32(code, pc, q + 12 + 8 * (i - 1)) >>])

parse_wide(code, pc) ==
  IF ~HasBytes(code, pc, 1, 1) THEN DecodeFail
  ELSE LET w == ReadU8(code, pc, 1)
       IN  IF w \in {21, 22, 23, 24, 25, 54, 55, 56, 57, 58}
           THEN IF HasBytes(code, pc, 2, 2)
                THEN Decoded("Wide", 4, w, ReadU16(code, pc, 2), << >>)
                ELSE DecodeFail
           ELSE IF w = 132
           THEN IF HasBytes(code, pc, 2, 4)
                THEN Decoded("Wide", 6, w, ReadU16(code, pc, 2),
                             << ReadI16(code, pc, 4) >>)
                ELSE DecodeFail
           ELSE DecodeFail

\* JVM::parse_opcode(code, pc), pc < Len(code)
parse_opcode(code, pc) ==
  LET b == code[pc + 1]
  IN  IF b + 1 \notin DOMAIN OpTable THEN DecodeFail
      ELSE
        LET e == OpTable[b + 1]
            len == OperandLen(e.fmt) + 1
        IN  CASE e.fmt = "tableswitch" -> parse_tableswitch(code, pc)
              [] e.fmt = "lookupswitch" -> parse_lookupswitch(code, pc)
              [] e.fmt = "wide" -> parse_wide(code, pc)
              [] e.fmt = "none" -> Decoded(e.name, len, 0, 0, << >>)
              [] OTHER ->
                   IF ~HasBytes(code, pc, 1, OperandLen(e.fmt)) THEN DecodeFail
                   ELSE CASE e.fmt = "i8" ->
                               Decoded(e.name, len, ReadI8(code, pc, 1), 0, << >>)
                          [] e.fmt = "u8" ->
                               Decoded(e.name, len, ReadU8(code, pc, 1), 0, << >>)
                          [] e.fmt = "i16" ->
                               Decoded(e.name, len, ReadI16(code, pc, 1), 0, << >>)
                          [] e.fmt = "u16" ->
                               Decoded(e.name, len, ReadU16(code, pc, 1), 0, << >>)
                          [] e.fmt = "i32" ->
                               Decoded(e.name, len, ReadI32(code, pc, 1), 0, << >>)
                          [] e.fmt = "u8i8" ->
                               Decoded(e.name, len, ReadU8(code, pc, 1),
                                       ReadI8(code, pc, 2), << >>)
                          [] e.fmt = "u16u8" ->
                               Decoded(e.name, len, ReadU16(code, pc, 1),
                                       ReadU8(code, pc, 3), << >>)
                          [] e.fmt = "newarray" ->
                               IF ReadU8(code, pc, 1) \in 4..11
                               THEN Decoded(e.name, len, ReadU8(code, pc, 1),
                                            0, << >>)
                               ELSE DecodeFail
                          [] e.fmt = "invokeinterface" ->
                               IF ReadU8(code, pc, 4) = 0 THEN DecodeFail
                               ELSE Decoded(e.name, len, ReadU16(code, pc, 1),
                                            ReadU8(code, pc, 3), << >>)

(***************************************************************************)
(* Runtime values and strings.  A Rust String is a sequence of tokens (a   *)
(* token is one or more characters that the code never looks inside);      *)
(* "." "/" ":" "(" ")" "[" ";" "L" and the type letters are tokens of      *)
(* their own, so replace, format! and the descriptor parser act on them    *)
(* as the code does.  Option<T> is a sequence of length 0 or 1.  A HashMap *)
(* is a function; insert is MapInsert.                                     *)
(***************************************************************************)
None == << >>
Some(x) == << x >>

EmptyMap == << >>
MapInsert(map, k, v) == [x \in DOMAIN map \cup {k} |-> IF x = k THEN v ELSE map[x]]

\* format!("{}:{}", a, b)
FormatKey(a, b) == a \o << ":" >> \o b

\* str::replace for a one-character pattern
Replace(s, from, to) == [i \in 1..Len(s) |-> IF s[i] = from THEN to ELSE s[i]]

\* JValue (jvalue.rs): the variants the model uses.  A Reference carries the
\* identity of its heap object (Rc::ptr_eq is equality of v).
JInt(v) == [t |-> "Int", v |-> v]
JLong(l) == [t |-> "Long", v |-> l]
JReference(r) == [t |-> "Reference", v |-> r]
JNull == [t |-> "Null", v |-> 0]
\* a float / double is kept as an opaque code of its bits; 0 is 0.0
JFloat(bits) == [t |-> "Float", v |-> bits]
JDouble(bits) == [t |-> "Double", v |-> bits]

is_category2(val) == val.t \in {"Long", "Double"}

\* results of operations that can panic or return Err
Ok(v) == [ok |-> TRUE, v |-> v]
Panic == [ok |-> FALSE, v |-> 0]

(***************************************************************************)
(* Methods, fields and classes (method.rs, field.rs, class.rs).            *)
(***************************************************************************)
Method(name, descriptor, code, max_locals, max_stack) ==
  [name |-> name, descriptor |-> descriptor, code |-> code,
   max_locals |-> max_locals, max_stack |-> max_stack]

\* Method::empty
Method_empty(name, descriptor) == Method(name, descriptor, << >>, 1, 0)

\* Field::new
Field_new(name, descriptor) == [name |-> name, descriptor |-> descriptor]

\* VMConstantPool::new / VMConstantPool::empty
VMConstantPool_new(cp) == [cp |-> cp, resolved_constants |-> EmptyMap]
VMConstantPool_empty == [cp |-> << >>, resolved_constants |-> EmptyMap]

Class(name, super_name, methods, fields, constant_pool) ==
  [name |-> name, super_name |-> super_name, methods |-> methods,
   fields |-> fields, constant_pool |-> constant_pool]

ObjectName == << "java", "/", "lang", "/", "Object" >>
StringName == << "java", "/", "lang", "/", "String" >>
ClassName == << "java", "/", "lang", "/", "Class" >>

\* the type letter of an AType code (opcode.rs is not in the tree; codes per
\* the JVM format: 4 boolean, 5 char, 6 float, 7 double, 8 byte, 9 short,
\* 10 int, 11 long)
ATypeLetter(ty) ==
  CASE ty = 4 -> "Z" [] ty = 5 -> "C" [] ty = 6 -> "F" [] ty = 7 -> "D"
    [] ty = 8 -> "B" [] ty = 9 -> "S" [] ty = 10 -> "I" [] ty = 11 -> "J"

\* Class::primitive_array_class
primitive_array_class(ty) ==
  Class(<< "[", ATypeLetter(ty) >>, Some(ObjectName), EmptyMap, EmptyMap,
        VMConstantPool_empty)

\* Class::reference_array_class
reference_array_class(class_name) ==
  Class(<< "[", "L" >> \o class_name \o << ";" >>, Some(ObjectName),
        EmptyMap, EmptyMap, VMConstantPool_empty)

\* VMConstantPool structural getters; index 0 of the pool is element 1
get_utf8(cp, index) ==
  IF index + 1 \notin DOMAIN cp THEN Panic
  ELSE IF cp[index + 1].tag = "Utf8" THEN Ok(cp[index + 1].string)
  ELSE Panic

get_class_name(cp, index) ==
  IF index + 1 \notin DOMAIN cp THEN Panic
  ELSE IF cp[index + 1].tag = "Class" THEN get_utf8(cp, cp[index + 1].name_index)
  ELSE Panic

get_name_and_type(cp, index) ==
  IF index + 1 \notin DOMAIN cp THEN Panic
  ELSE IF cp[index + 1].tag # "NameAndType" THEN Panic
  ELSE LET name == get_utf8(cp, cp[index + 1].name_index)
           descriptor == get_utf8(cp, cp[index + 1].descriptor_index)
       IN  IF name.ok /\ descriptor.ok THEN Ok(<< name.v, descriptor.v >>)
           ELSE Panic

\* Method::from_method_info
from_method_info(info, cp) ==
  LET name == get_utf8(cp, info.name_index)
      descriptor == get_utf8(cp, info.descriptor_index)
  IN  IF ~name.ok \/ ~descriptor.ok \/ info.code = None THEN Panic
      ELSE Ok(Method(name.v, descriptor.v, info.code[1].code,
                     info.code[1].max_locals, info.code[1].max_stack))

\* Field::from_field_info
from_field_info(info, cp) ==
  LET name == get_utf8(cp, info.name_index)
      descriptor == get_utf8(cp, info.descriptor_index)
  IN  IF ~name.ok \/ ~descriptor.ok THEN Panic
      ELSE Ok(Field_new(name.v, descriptor.v))

\* collect::<HashMap<_, _>>() of (format!("{}:{}", x.name, x.descriptor), x):
\* a later member with the same key replaces an earlier one
CollectByKey(members) ==
  LET key(i) == FormatKey(members[i].name, members[i].descriptor)
      LastWith(k) == CHOOSE i \in 1..Len(members) :
                       /\ key(i) = k
                       /\ \A j \in 1..Len(members) : key(j) = k => j <= i
  IN  [k \in {key(i) : i \in 1..Len(members)} |-> members[LastWith(k)]]

\* Class::from_classfile
from_classfile(cf) ==
  LET cp == cf.constant_pool
      name == get_class_name(cp, cf.this_class)
      super_name == IF cf.super_class # 0 THEN get_class_name(cp, cf.super_class)
                    ELSE Ok(<< >>)
      ms == [i \in 1..Len(cf.methods) |-> from_method_info(cf.methods[i], cp)]
      fs == [i \in 1..Len(cf.fields) |-> from_field_info(cf.fields[i], cp)]
  IN  IF ~name.ok \/ ~super_name.ok
         \/ (\E i \in 1..Len(ms) : ~ms[i].ok) \/ (\E i \in 1..Len(fs) : ~fs[i].ok)
      THEN Panic
      ELSE Ok(Class(name.v,
                    IF cf.super_class # 0 THEN Some(super_name.v) ELSE None,
                    CollectByKey([i \in 1..Len(ms) |-> ms[i].v]),
                    CollectByKey([i \in 1..Len(fs) |-> fs[i].v]),
                    VMConstantPool_new(cp)))

(***************************************************************************)
(* State.                                                                  *)
(*   disk            the class files of the working directory, by path     *)
(*                   (the input of the run; never written)                 *)
(*   overflow_checks whether the build traps integer overflow (rustc's     *)
(*                   overflow-checks: on in the dev profile, off in        *)
(*                   release); fixed for the run                           *)
(*   loaded_classes  ClassLoader.loaded_classes: name -> class handle      *)
(*   class_arena     the Class objects allocated so far; a handle          *)
(*                   (Rc<Class>) is an index into it, so two handles are   *)
(*                   identical iff equal.  A class's resolution cache      *)
(*                   (constant_pool.resolved_constants) lives here.        *)
(*   classes         JVM.classes: name -> class handle (written by         *)
(*                   run_class, never read)                                *)
(*   interned_strings  JVM.interned_strings: text -> reference             *)
(*   heap            the JObjects allocated so far; a reference is an index*)
(*   thread          thread.stack, the frames, bottom first                *)
(*   status          "new" before run_class, "running" in its loop,        *)
(*                   "finished" after Ok(()), "aborted" after a panic      *)
(*   steps           loop iterations done (bounded by MaxSteps)            *)
(*   last            what the last loop iteration did: the decoded opcode, *)
(*                   start_pc, and the frames before it (observation only) *)
(*   callsite        for each frame, the pc of the last invokespecial it   *)
(*                   executed that pushed a frame, -1 if none (observation *)
(*                   only)                                                 *)
(*   loads           the calls of load_class that returned a class, in     *)
(*                   order: the name asked for, and whether the call read  *)
(*                   and decoded the class file (observation only)         *)
(*   resolver        the call of resolve_constant in progress, statement   *)
(*                   by statement, with the borrows of the RefCell of the  *)
(*                   cache it resolves in (used by ResolverSpec, where a   *)
(*                   call is a sequence of steps; Spec takes a call as     *)
(*                   one step and leaves it idle)                          *)
(***************************************************************************)
VARIABLES disk, overflow_checks, loaded_classes, class_arena, classes,
          interned_strings, heap, thread, status, steps, last, callsite,
          loads, resolver

vars == << disk, overflow_checks, loaded_classes, class_arena, classes,
           interned_strings, heap, thread, status, steps, last, callsite,
           loads, resolver >>

\* the mutable machine the handlers work on
Machine ==
  [thread |-> thread, heap |-> heap, class_arena |-> class_arena,
   loaded_classes |-> loaded_classes, interned_strings |-> interned_strings,
   loads |-> loads]

Done(m) == [ok |-> TRUE, m |-> m]
Fail(m) == [ok |-> FALSE, m |-> m]

(***************************************************************************)
(* The class registry (class_loader.rs).                                   *)
(***************************************************************************)
\* the order of ClassLoader::load_default_classes
DefaultClasses ==
  << primitive_array_class(4), primitive_array_class(8),
     primitive_array_class(5), primitive_array_class(7),
     primitive_array_class(6), primitive_array_class(10),
     primitive_array_class(11), primitive_array_class(9),
     Class(ObjectName, None,
           MapInsert(EmptyMap, FormatKey(<< "<init>" >>, << "(", ")", "V" >>),
                     Method_empty(<< "<init>" >>, << "(", ")", "V" >>)),
           EmptyMap, VMConstantPool_empty),
     Class(StringName, Some(ObjectName), EmptyMap,
           MapInsert(EmptyMap, << "value", ":", "[", "C" >>,
                     Field_new(<< "value", ":", "[", "C" >>, << "[", "C" >>)),
           VMConstantPool_empty),
     Class(ClassName, Some(ObjectName), EmptyMap, EmptyMap,
           VMConstantPool_empty) >>

\* ClassLoader::new: the registry after load_default_classes
load_default_classes ==
  [n \in {DefaultClasses[i].name : i \in 1..Len(DefaultClasses)} |->
     CHOOSE i \in 1..Len(DefaultClasses) : DefaultClasses[i].name = n]

\* the path load_class opens: format!("{}.class", name.replace('.', "/"))
ClassPath(name) == Replace(name, ".", "/") \o << ".class" >>

\* ClassFileReader::read_file, and ClassFileReader::read in it.  A file is
\* kept as its constant_pool_count, the entries of its pool in file order
\* (cp_info; a Long or Double is one entry), its access_flags and the
\* decoded rest.  The pool loop runs constant_pool_count - 1 times and reads
\* one entry each time after the sentinel it starts with; when the entries
\* run out, the next tag is the first byte of access_flags, and
\* constant_tag returns Err for a byte that is no ConstantPoolTag.
read_file(path) ==
  LET file == disk[path]
      n == file.constant_pool_count - 1
      ConstantPoolTag ==
        {1, 3, 4, 5, 6, 7, 8, 9, 10, 11, 12, 15, 16, 17, 18, 19, 20}
  IN  CASE n = Len(file.cp_info) ->
             Ok([constant_pool |->
                   << [tag |-> "String", string_index |-> 0] >> \o file.cp_info,
                 this_class |-> file.this_class,
                 super_class |-> file.super_class,
                 fields |-> file.fields,
                 methods |-> file.methods])
        [] n > Len(file.cp_info)
             /\ file.access_flags \div 256 \notin ConstantPoolTag ->
             [ok |-> FALSE, v |-> 0]

\* a faulty variant of load_class, used to test that the properties of the
\* registry below depend on it: the registry is not consulted, every call
\* reads and decodes the file and inserts a new handle
LoadWithoutLookup(m, name) ==
  LET fail(res) == [res |-> res, class |-> 0, m |-> m]
      built(class) ==
        IF ~class.ok THEN fail("panic")
        ELSE [res |-> "ok", class |-> Len(m.class_arena) + 1,
              m |-> [m EXCEPT
                       !.class_arena = Append(@, class.v),
                       !.loaded_classes =
                         MapInsert(@, name, Len(m.class_arena) + 1),
                       !.loads = Append(@, [name |-> name, read |-> TRUE])]]
      opened(classfile) ==
        IF ~classfile.ok THEN fail("err")
        ELSE built(from_classfile(classfile.v))
  IN  IF ClassPath(name) \notin DOMAIN disk THEN fail("panic")
      ELSE opened(read_file(ClassPath(name)))

\* a faulty variant of load_class, used to test that the property of a
\* failed load below depends on it: the name is entered in the registry
\* before the file is read
LoadInsertsFirst(m, name) ==
  LET entered == [m EXCEPT !.loaded_classes = MapInsert(@, name, 0)]
      fail(res) == [res |-> res, class |-> 0, m |-> entered]
      built(class) ==
        IF ~class.ok THEN fail("panic")
        ELSE [res |-> "ok", class |-> Len(m.class_arena) + 1,
              m |-> [m EXCEPT
                       !.class_arena = Append(@, class.v),
                       !.loaded_classes =
                         MapInsert(@, name, Len(m.class_arena) + 1),
                       !.loads = Append(@, [name |-> name, read |-> TRUE])]]
      opened(classfile) ==
        IF ~classfile.ok THEN fail("err")
        ELSE built(from_classfile(classfile.v))
  IN  IF name \in DOMAIN m.loaded_classes
      THEN [res |-> "ok", class |-> m.loaded_classes[name],
            m |-> [m EXCEPT
                     !.loads = Append(@, [name |-> name, read |-> FALSE])]]
      ELSE IF ClassPath(name) \notin DOMAIN disk THEN fail("panic")
      ELSE opened(read_file(ClassPath(name)))

\* ClassLoader::load_class.  res is "ok" (with the handle in class),
\* "err" (Err returned) or "panic" (File::open(..).expect, or a panic
\* while building the Class)
load_class(m, name) ==
  LET fail(res) == [res |-> res, class |-> 0, m |-> m]
      built(class) ==
        IF ~class.ok THEN fail("panic")
        ELSE [res |-> "ok", class |-> Len(m.class_arena) + 1,
              m |-> [m EXCEPT
                       !.class_arena = Append(@, class.v),
                       !.loaded_classes =
                         MapInsert(@, name, Len(m.class_arena) + 1),
                       !.loads = Append(@, [name |-> name, read |-> TRUE])]]
      opened(classfile) ==
        IF ~classfile.ok THEN fail("err")
        ELSE built(from_classfile(classfile.v))
  IN  IF name \in DOMAIN m.loaded_classes
      THEN [res |-> "ok", class |-> m.loaded_classes[name],
            m |-> [m EXCEPT
                     !.loads = Append(@, [name |-> name, read |-> FALSE])]]
      ELSE IF ClassPath(name) \notin DOMAIN disk THEN fail("panic")
      ELSE opened(read_file(ClassPath(name)))

(***************************************************************************)
(* Constant-pool resolution (constant_pool.rs).  A ResolvedConstant that   *)
(* holds handles names them: Class by class handle, FieldRef / MethodRef   *)
(* by the handle of the declaring class and the member's key in it.        *)
(***************************************************************************)
Resolved(tag, v, class, key) ==
  [tag |-> tag, v |-> v, class |-> class, key |-> key]

\* a faulty variant of CacheResolved, used to test that the properties of
\* the resolution cache below depend on it: the result is returned but not
\* inserted
ReturnUncached(m, c, index, resolved) ==
  [ok |-> TRUE, v |-> resolved, m |-> m]

\* the insert at the end of resolve_constant
CacheResolved(m, c, index, resolved) ==
  [ok |-> TRUE, v |-> resolved,
   m |-> [m EXCEPT !.class_arena[c].constant_pool.resolved_constants =
                      MapInsert(@, index, resolved)]]

\* a faulty variant of ResolveMember, used to test that the properties of
\* a failed resolution below depend on it: a member the named class lacks
\* is looked up in its super-class
ResolveInSuperClass(m, c, index, e, tag) ==
  LET cp == m.class_arena[c].constant_pool.cp
      members(m1, class) ==
        IF tag = "FieldRef" THEN m1.class_arena[class].fields
        ELSE m1.class_arena[class].methods
      inherited(sl, key) ==
        IF sl.res # "ok" THEN Fail(m)
        ELSE IF key \notin DOMAIN members(sl.m, sl.class) THEN Fail(m)
        ELSE CacheResolved(sl.m, c, index, Resolved(tag, 0, sl.class, key))
      found(l, key) ==
        IF key \in DOMAIN members(l.m, l.class)
        THEN CacheResolved(l.m, c, index, Resolved(tag, 0, l.class, key))
        ELSE IF l.m.class_arena[l.class].super_name = None THEN Fail(m)
        ELSE inherited(load_class(l.m, l.m.class_arena[l.class].super_name[1]),
                       key)
      named(l, nt) ==
        IF l.res # "ok" \/ ~nt.ok THEN Fail(m)
        ELSE found(l, FormatKey(nt.v[1], nt.v[2]))
      loaded(class_name) ==
        IF ~class_name.ok THEN Fail(m)
        ELSE named(load_class(m, class_name.v),
                   get_name_and_type(cp, e.name_and_type_index))
  IN  loaded(get_class_name(cp, e.class_index))

ResolveMember(m, c, index, e, tag) ==
  LET cp == m.class_arena[c].constant_pool.cp
      found(l, key) ==
        IF key \notin DOMAIN (IF tag = "FieldRef"
                              THEN l.m.class_arena[l.class].fields
                              ELSE l.m.class_arena[l.class].methods)
        THEN Fail(m)
        ELSE CacheResolved(l.m, c, index, Resolved(tag, 0, l.class, key))
      named(l, nt) ==
        IF l.res # "ok" \/ ~nt.ok THEN Fail(m)
        ELSE found(l, FormatKey(nt.v[1], nt.v[2]))
      loaded(class_name) ==
        IF ~class_name.ok THEN Fail(m)
        ELSE named(load_class(m, class_name.v),
                   get_name_and_type(cp, e.name_and_type_index))
  IN  loaded(get_class_name(cp, e.class_index))

\* VMConstantPool::resolve_constant on the pool of class c
resolve_constant(m, c, index) ==
  LET pool == m.class_arena[c].constant_pool
      e == pool.cp[index + 1]
      string(content) ==
        IF ~content.ok THEN Fail(m)
        ELSE CacheResolved(m, c, index, Resolved("String", content.v, 0, << >>))
      loaded(l) ==
        IF l.res # "ok" THEN Fail(m)
        ELSE CacheResolved(l.m, c, index, Resolved("Class", 0, l.class, << >>))
      class(name) ==
        IF ~name.ok THEN Fail(m) ELSE loaded(load_class(m, name.v))
  IN  IF index \in DOMAIN pool.resolved_constants
      THEN [ok |-> TRUE, v |-> pool.resolved_constants[index], m |-> m]
      ELSE IF index + 1 \notin DOMAIN pool.cp THEN Fail(m)
      ELSE CASE e.tag \in {"Integer", "Float"} ->
                  CacheResolved(m, c, index, Resolved(e.tag, e.bytes, 0, << >>))
             [] e.tag = "String" -> string(get_utf8(pool.cp, e.string_index))
             [] e.tag = "Class" -> class(get_utf8(pool.cp, e.name_index))
             [] e.tag \in {"FieldRef", "MethodRef"} ->
                  ResolveMember(m, c, index, e, e.tag)
             [] OTHER -> Fail(m)

(***************************************************************************)
(* Frames and heap objects (stack_frame.rs, jobject.rs).                   *)
(***************************************************************************)
\* StackFrame::new(class, method); method is named by its key in class
StackFrame_new(m, class, key) ==
  [class |-> class, method |-> key, pc |-> 0,
   locals |-> [i \in 1..m.class_arena[class].methods[key].max_locals |-> JNull],
   operand_stack |-> << >>]

\* frame.method
MethodOf(m, f) == m.class_arena[f.class].methods[f.method]

Top(m) == m.thread[Len(m.thread)]
SetTop(m, f) == [m EXCEPT !.thread[Len(m.thread)] = f]

Depth(f) == Len(f.operand_stack)
Peek(f, k) == f.operand_stack[Depth(f) - k]
Drop(f, n) == [f EXCEPT !.operand_stack = SubSeq(@, 1, Len(@) - n)]
Push(f, v) == [f EXCEPT !.operand_stack = Append(@, v)]

ArrayKind(ty) ==
  CASE ty = 4 -> "ArrayBoolean" [] ty = 5 -> "ArrayChar"
    [] ty = 6 -> "ArrayFloat" [] ty = 7 -> "ArrayDouble"
    [] ty = 8 -> "ArrayByte" [] ty = 9 -> "ArrayShort"
    [] ty = 10 -> "ArrayInt" [] ty = 11 -> "ArrayLong"

JObject(class, kind, elems, fields) ==
  [class |-> class, kind |-> kind, elems |-> elems, fields |-> fields]

\* JObject::new_primitive_array: a fresh class object and a fresh array
new_primitive_array(m, ty, count) ==
  IF count < 0 THEN [ok |-> FALSE, v |-> 0, m |-> m]
  ELSE LET class == Len(m.class_arena) + 1
           elem == IF ty = 11 THEN ZeroL(4) ELSE 0
       IN  [ok |-> TRUE, v |-> Len(m.heap) + 1,
            m |-> [m EXCEPT
                     !.class_arena = Append(@, primitive_array_class(ty)),
                     !.heap = Append(@, JObject(class, ArrayKind(ty),
                                                [i \in 1..count |-> elem],
                                                EmptyMap))]]

(***************************************************************************)
(* Opcode handlers that touch only the top frame (jvm.rs).  Each returns   *)
(* Ok(frame') or Panic.   operand_stack.pop().unwrap() panics on an empty *)
(* stack; frame.locals[index] panics on an index >= locals.len().          *)
(***************************************************************************)
\* frame.pc = frame.pc.checked_add_signed(offset as isize).unwrap()
Branch(f, offset) ==
  IF f.pc + offset < 0 THEN Panic ELSE Ok([f EXCEPT !.pc = f.pc + offset])

\* JVM::goto
goto(f, offset) == Branch(f, offset)

\* the value pushed by aconst_null, iconst_i, lconst_i, fconst_i, dconst_i,
\* bipush and sipush (execute_opcode passes the constant)
ConstValue(d) ==
  CASE d.op = "AConstNull" -> JNull
    [] d.op = "IConstM1" -> JInt(-1)
    [] d.op = "IConst0" -> JInt(0)
    [] d.op = "IConst1" -> JInt(1)
    [] d.op = "IConst2" -> JInt(2)
    [] d.op = "IConst3" -> JInt(3)
    [] d.op = "IConst4" -> JInt(4)
    [] d.op = "IConst5" -> JInt(5)
    [] d.op = "LConst0" -> JLong(I32ToL64(0))
    [] d.op = "LConst1" -> JLong(I32ToL64(1))
    [] d.op = "FConst0" -> JFloat(0)
    [] d.op = "FConst1" -> JFloat(1)
    [] d.op = "FConst2" -> JFloat(2)
    [] d.op = "DConst0" -> JDouble(0)
    [] d.op = "DConst1" -> JDouble(1)
    [] d.op \in {"BIPush", "SIPush"} -> JInt(d.x)

\* JVM::iconst_i and its siblings: push without any check against max_stack
push_const(f, d) == Ok(Push(f, ConstValue(d)))

\* the index of iload / lload / aload / istore / lstore / astore and their
\* 0..3 shortcuts (execute_opcode passes the index)
LocalIndex(d) ==
  CASE d.op \in {"ILoad", "LLoad", "ALoad", "IStore", "LStore", "AStore"} -> d.x
    [] d.op \in {"ILoad0", "LLoad0", "ALoad0", "IStore0", "LStore0", "AStore0"} -> 0
    [] d.op \in {"ILoad1", "LLoad1", "ALoad1", "IStore1", "LStore1", "AStore1"} -> 1
    [] d.op \in {"ILoad2", "LLoad2", "ALoad2", "IStore2", "LStore2", "AStore2"} -> 2
    [] d.op \in {"ILoad3", "LLoad3", "ALoad3", "IStore3", "LStore3", "AStore3"} -> 3

\* the value types a load / store of this opcode accepts
LocalTypes(d) ==
  CASE d.op \in {"ILoad", "ILoad0", "ILoad1", "ILoad2", "ILoad3",
                 "IStore", "IStore0", "IStore1", "IStore2", "IStore3"} -> {"Int"}
    [] d.op \in {"LLoad", "LLoad0", "LLoad1", "LLoad2", "LLoad3",
                 "LStore", "LStore0", "LStore1", "LStore2", "LStore3"} -> {"Long"}
    [] OTHER -> {"Reference", "Null"}

\* JVM::iload, lload, aload
load(f, d) ==
  IF LocalIndex(d) >= Len(f.locals) THEN Panic
  ELSE IF f.locals[LocalIndex(d) + 1].t \notin LocalTypes(d) THEN Panic
  ELSE Ok(Push(f, f.locals[LocalIndex(d) + 1]))

\* JVM::istore, lstore, astore
store(f, d) ==
  IF Depth(f) = 0 THEN Panic
  ELSE IF Peek(f, 0).t \notin LocalTypes(d) THEN Panic
  ELSE IF LocalIndex(d) >= Len(f.locals) THEN Panic
  ELSE Ok([Drop(f, 1) EXCEPT !.locals[LocalIndex(d) + 1] = Peek(f, 0)])

\* JVM::pop, dup
stack_op(f, d) ==
  IF Depth(f) = 0 THEN Panic
  ELSE IF d.op = "Pop" THEN Ok(Drop(f, 1))
  ELSE Ok(Push(f, Peek(f, 0)))

\* a faulty variant of pop2, used to test that the properties of
\* category-2 values below depend on it: every value is treated as
\* category 1
Pop2TwoEntries(f) ==
  IF Depth(f) < 2 THEN Panic ELSE Ok(Drop(f, 2))

\* JVM::pop2: one entry if the top is category 2, two entries otherwise
pop2(f) ==
  IF Depth(f) = 0 THEN Panic
  ELSE IF is_category2(Peek(f, 0)) THEN Ok(Drop(f, 1))
  ELSE IF Depth(f) < 2 THEN Panic
  ELSE Ok(Drop(f, 2))

\* JVM::dup2: the top entry again if it is category 2, the top two entries
\* again otherwise
dup2(f) ==
  IF Depth(f) = 0 THEN Panic
  ELSE IF is_category2(Peek(f, 0)) THEN Ok(Push(f, Peek(f, 0)))
  ELSE IF Depth(f) < 2 THEN Panic
  ELSE Ok(Push(Push(f, Peek(f, 1)), Peek(f, 0)))

\* JVM::dup2_x2: pops value1 and value2, and unless both are category 2 a
\* value3, and unless that is category 2 a value4, then pushes by the form
\* it found
dup2_x2(f) ==
  LET value1 == Peek(f, 0)
      value2 == Peek(f, 1)
      value3 == Peek(f, 2)
      value4 == Peek(f, 3)
      PushAll(g, vs) == [g EXCEPT !.operand_stack = @ \o vs]
  IN  IF Depth(f) < 2 THEN Panic
      ELSE IF is_category2(value1) /\ is_category2(value2)
      THEN Ok(PushAll(Drop(f, 2), << value1, value2, value1 >>))
      ELSE IF Depth(f) < 3 THEN Panic
      ELSE IF is_category2(value3)
      THEN IF is_category2(value2)
           THEN Ok(PushAll(Drop(f, 3), << value1, value3, value2, value1 >>))
           ELSE Ok(PushAll(Drop(f, 3),
                           << value2, value1, value3, value2, value1 >>))
      ELSE IF Depth(f) < 4 THEN Panic
      ELSE Ok(PushAll(Drop(f, 4),
                      << value2, value1, value4, value3, value2, value1 >>))

\* the conditions of ifeq .. ifle
IfHolds(op, value) ==
  CASE op = "IfEq" -> value = 0
    [] op = "IfNe" -> value # 0
    [] op = "IfLt" -> value < 0
    [] op = "IfGe" -> value >= 0
    [] op = "IfGt" -> value > 0
    [] op = "IfLe" -> value <= 0

if_cond(f, d) ==
  IF Depth(f) = 0 THEN Panic
  ELSE IF Peek(f, 0).t # "Int" THEN Panic
  ELSE IF IfHolds(d.op, Peek(f, 0).v) THEN Branch(Drop(f, 1), d.x)
  ELSE Ok(Drop(f, 1))

\* the if_icmp* handlers, by the function's name
ICmpHolds(handler, value1, value2) ==
  CASE handler = "if_icmpeq" -> value1 = value2
    [] handler = "if_icmpne" -> value1 # value2
    [] handler = "if_icmplt" -> value1 < value2
    [] handler = "if_icmpge" -> value1 >= value2
    [] handler = "if_icmpgt" -> value1 > value2
    [] handler = "if_icmple" -> value1 <= value2

if_icmp(f, handler, offset) ==
  IF Depth(f) < 2 THEN Panic
  ELSE IF Peek(f, 0).t # "Int" \/ Peek(f, 1).t # "Int" THEN Panic
  ELSE IF ICmpHolds(handler, Peek(f, 1).v, Peek(f, 0).v)
       THEN Branch(Drop(f, 2), offset)
  ELSE Ok(Drop(f, 2))

\* the arms of execute_opcode for the if_icmp* opcodes (jvm.rs:275-280)
ICmpHandler(op) ==
  CASE op = "IfICmpEq" -> "if_icmpeq"
    [] op = "IfICmpNe" -> "if_icmpne"
    [] op = "IfICmpLt" -> "if_icmplt"
    [] op = "IfICmpGe" -> "if_icmpgt"
    [] op = "IfICmpGt" -> "if_icmpgt"
    [] op = "IfICmpLe" -> "if_icmple"

\* JVM::if_acmpeq / if_acmpne: both operands must be JValue::Reference
if_acmp(f, d) ==
  IF Depth(f) < 2 THEN Panic
  ELSE IF Peek(f, 0).t # "Reference" \/ Peek(f, 1).t # "Reference" THEN Panic
  ELSE IF (d.op = "IfACmpEq") = (Peek(f, 1).v = Peek(f, 0).v)
       THEN Branch(Drop(f, 2), d.x)
  ELSE Ok(Drop(f, 2))

\* JVM::tableswitch; d.y = << low, high >>, d.tbl = jump_offsets
tableswitch(f, d) ==
  IF Depth(f) = 0 THEN Panic
  ELSE IF Peek(f, 0).t # "Int" THEN Panic
  ELSE LET index == Peek(f, 0).v
       IN  IF index < d.y[1] \/ index > d.y[2]
           THEN Branch(Drop(f, 1), d.x)
           ELSE Branch(Drop(f, 1), d.tbl[(index - d.y[1]) + 1])

\* JVM::lookupswitch; d.tbl = match_offsets: the first matching pair wins
lookupswitch(f, d) ==
  IF Depth(f) = 0 THEN Panic
  ELSE IF Peek(f, 0).t # "Int" THEN Panic
  ELSE LET key == Peek(f, 0).v
           hits == {i \in 1..Len(d.tbl) : d.tbl[i][1] = key}
       IN  IF hits # {}
           THEN Branch(Drop(f, 1),
                       d.tbl[CHOOSE i \in hits : \A j \in hits : i <= j][2])
           ELSE Branch(Drop(f, 1), d.x)

(***************************************************************************)
(* Integer arithmetic (jvm.rs, "Math").  The handlers use the plain Rust   *)
(* operators: + - * and unary - panic on overflow when the build has       *)
(* overflow checks (the dev profile) and wrap when it has not (release);   *)
(* / and % panic on a zero divisor and on MIN / -1 in every build.         *)
(* The parameter checks is that property of the build.                     *)
(***************************************************************************)
\* value1 op value2 on limbs
Arith(op, a, b, checks) ==
  CASE op \in {"IAdd", "LAdd"} ->
         IF checks /\ OverflowsL("add", a, b) THEN Panic
         ELSE Ok(AddL(a, b, 0))
    [] op \in {"ISub", "LSub"} ->
         IF checks /\ OverflowsL("sub", a, b) THEN Panic
         ELSE Ok(SubL(a, b))
    [] op \in {"IMul", "LMul"} ->
         IF checks /\ OverflowsL("mul", a, b) THEN Panic
         ELSE Ok(MulL(a, b))
    [] op \in {"IDiv", "LDiv"} ->
         IF b = ZeroL(Len(b)) \/ OverflowsL("div", a, b) THEN Panic
         ELSE Ok(DivRemL(a, b)[1])
    [] op \in {"IRem", "LRem"} ->
         IF b = ZeroL(Len(b)) \/ OverflowsL("div", a, b) THEN Panic
         ELSE Ok(DivRemL(a, b)[2])
    [] op \in {"INeg", "LNeg"} ->
         IF checks /\ OverflowsL("neg", a, b) THEN Panic
         ELSE Ok(NegL(a))

\* JVM::iadd, isub, imul, idiv, irem
int_math(f, d, checks) ==
  LET push(r) ==
        IF r.ok THEN Ok(Push(Drop(f, 2), JInt(FromLimbs32(r.v)))) ELSE Panic
  IN  IF Depth(f) < 2 THEN Panic
      ELSE IF Peek(f, 0).t # "Int" \/ Peek(f, 1).t # "Int" THEN Panic
      ELSE push(Arith(d.op, ToLimbs32(Peek(f, 1).v), ToLimbs32(Peek(f, 0).v),
                      checks))

\* JVM::ladd, lsub, lmul, ldiv, lrem
long_math(f, d, checks) ==
  LET push(r) == IF r.ok THEN Ok(Push(Drop(f, 2), JLong(r.v))) ELSE Panic
  IN  IF Depth(f) < 2 THEN Panic
      ELSE IF Peek(f, 0).t # "Long" \/ Peek(f, 1).t # "Long" THEN Panic
      ELSE push(Arith(d.op, Peek(f, 1).v, Peek(f, 0).v, checks))

\* JVM::ineg, lneg
neg(f, d, checks) ==
  LET push(r) ==
        IF ~r.ok THEN Panic
        ELSE IF d.op = "INeg" THEN Ok(Push(Drop(f, 1), JInt(FromLimbs32(r.v))))
        ELSE Ok(Push(Drop(f, 1), JLong(r.v)))
  IN  IF Depth(f) < 1 THEN Panic
      ELSE IF Peek(f, 0).t # (IF d.op = "INeg" THEN "Int" ELSE "Long") THEN Panic
      ELSE push(Arith(d.op,
                      IF d.op = "INeg" THEN ToLimbs32(Peek(f, 0).v)
                      ELSE Peek(f, 0).v,
                      ZeroL(2), checks))

\* a << s on limbs, 0 <= s < 16 * Len(a); the bits shifted out are lost
RECURSIVE ShlL(_, _)
ShlL(a, s) == IF s = 0 THEN a ELSE ShlL(MulSmallL(a, 2, 0), s - 1)

\* JVM::lshl: value1 << (value2 & 0b111111)
lshl(f) ==
  IF Depth(f) < 2 THEN Panic
  ELSE IF Peek(f, 1).t # "Long" \/ Peek(f, 0).t # "Int" THEN Panic
  ELSE Ok(Push(Drop(f, 2), JLong(ShlL(Peek(f, 1).v, Peek(f, 0).v % 64))))

\* a >> s on limbs taken as an unsigned value, 0 <= s < 16 * Len(a): zeros
\* come in at the top
UShrL(a, s) ==
  LET limb(j) == IF j > Len(a) THEN 0 ELSE a[j]
  IN  [i \in 1..Len(a) |->
         (limb(i + (s \div 16)) \div (2 ^ (s % 16)))
           + (limb(i + (s \div 16) + 1) % (2 ^ (s % 16))) * (2 ^ (16 - (s % 16)))]

\* JVM::lushr: ((value1 as u32) >> (value2 & 0b111111)) as i32, pushed as an
\* Int.  A shift of 32 or more on the u32 panics when the build has overflow
\* checks and is taken modulo 32 when it has not.
lushr(f, checks) ==
  LET shift == Peek(f, 0).v % 64
  IN  IF Depth(f) < 2 THEN Panic
      ELSE IF Peek(f, 1).t # "Long" \/ Peek(f, 0).t # "Int" THEN Panic
      ELSE IF shift >= 32 /\ checks THEN Panic
      ELSE Ok(Push(Drop(f, 2),
                   JInt(FromLimbs32(UShrL(SubSeq(Peek(f, 1).v, 1, 2),
                                          shift % 32)))))

\* JVM::i2l: value as i64
i2l(f) ==
  IF Depth(f) < 1 THEN Panic
  ELSE IF Peek(f, 0).t # "Int" THEN Panic
  ELSE Ok(Push(Drop(f, 1), JLong(I32ToL64(Peek(f, 0).v))))

\* a faulty variant of math, used to test that the properties of a failing
\* instruction depend on it: a handler's panic is swallowed and the frame
\* left as it was
MathNoAbort(f, d, checks) ==
  LET swallow(r) == IF r.ok THEN r ELSE Ok(f)
  IN  swallow(CASE d.op \in {"IAdd", "ISub", "IMul", "IDiv", "IRem"} ->
                     int_math(f, d, checks)
                [] d.op \in {"LAdd", "LSub", "LMul", "LDiv", "LRem"} ->
                     long_math(f, d, checks)
                [] d.op \in {"INeg", "LNeg"} -> neg(f, d, checks)
                [] d.op = "LShl" -> lshl(f)
    [] d.op = "LUshr" -> lushr(f, checks)
                [] d.op = "LUshr" -> lushr(f, checks))

\* JVM::iinc: `*value += constant as i32` on an Int local
iinc(f, d, checks) ==
  LET sum == Arith("IAdd", ToLimbs32(f.locals[d.x + 1].v), ToLimbs32(d.y),
                   checks)
  IN  IF d.x >= Len(f.locals) THEN Panic
      ELSE IF f.locals[d.x + 1].t # "Int" THEN Panic
      ELSE IF ~sum.ok THEN Panic
      ELSE Ok([f EXCEPT !.locals[d.x + 1] = JInt(FromLimbs32(sum.v))])

\* the "Math" arms of execute_opcode that the model covers
math(f, d, checks) ==
  CASE d.op \in {"IAdd", "ISub", "IMul", "IDiv", "IRem"} ->
         int_math(f, d, checks)
    [] d.op \in {"LAdd", "LSub", "LMul", "LDiv", "LRem"} ->
         long_math(f, d, checks)
    [] d.op \in {"INeg", "LNeg"} -> neg(f, d, checks)
    [] d.op = "LShl" -> lshl(f)
    [] d.op = "LUshr" -> lushr(f, checks)

(***************************************************************************)
(* Handlers that reach beyond the top frame: the heap, the registry, the   *)
(* resolution cache and the frame stack.  Each returns Done(m') or Fail(m).*)
(***************************************************************************)
\* a faulty variant of OnTop, used to test that the property of the caller
\* frame below depends on it: the handler's frame is written over the frame
\* below the top when there is one
OnCaller(m, r) ==
  IF ~r.ok THEN Fail(m)
  ELSE IF Len(m.thread) > 1
  THEN Done([m EXCEPT !.thread[Len(m.thread) - 1] = r.v])
  ELSE Done(SetTop(m, r.v))

OnTop(m, r) == IF r.ok THEN Done(SetTop(m, r.v)) ELSE Fail(m)

\* JObject::default_fields
DefaultFieldValue(descriptor) ==
  IF descriptor = << >> THEN Panic
  ELSE CASE descriptor[1] \in {"B", "S", "I", "C", "Z"} -> Ok(JInt(0))
         [] descriptor[1] = "J" -> Ok(JLong(ZeroL(4)))
         [] descriptor[1] = "F" -> Ok(JFloat(0))
         [] descriptor[1] = "D" -> Ok(JDouble(0))
         [] descriptor[1] \in {"L", "["} -> Ok(JNull)
         [] OTHER -> Panic

default_fields(class) ==
  IF \E k \in DOMAIN class.fields : ~DefaultFieldValue(class.fields[k].descriptor).ok
  THEN Panic
  ELSE Ok([k \in DOMAIN class.fields |->
             DefaultFieldValue(class.fields[k].descriptor).v])

\* JObject::new (kind "Object") / JObject::new_kind: allocate an object of
\* class handle c
JObject_new_kind(m, c, kind, elems) ==
  LET fields == default_fields(m.class_arena[c])
  IN  IF ~fields.ok THEN [ok |-> FALSE, v |-> 0, m |-> m]
      ELSE [ok |-> TRUE, v |-> Len(m.heap) + 1,
            m |-> [m EXCEPT !.heap = Append(@, JObject(c, kind, elems, fields.v))]]

\* JObject::set_field on the object behind reference r
set_field(m, r, name, value) ==
  [m EXCEPT !.heap[r].fields = MapInsert(@, name, value)]

\* a faulty variant of make_java_string, used to test that the properties
\* of interning below depend on it: the table is not consulted, every call
\* builds a new string object and maps the text to it
MakeWithoutLookup(m, s) ==
  LET fail == [ok |-> FALSE, v |-> 0, m |-> m]
      finish(str_object, char_array_object) ==
        IF ~char_array_object.ok THEN fail
        ELSE [ok |-> TRUE, v |-> str_object.v,
              m |-> [set_field(char_array_object.m, str_object.v,
                               << "value", ":", "[", "C" >>,
                               JReference(char_array_object.v))
                       EXCEPT !.interned_strings =
                                MapInsert(@, s, str_object.v)]]
      with_array(str_object, char_array_class) ==
        IF char_array_class.res # "ok" THEN fail
        ELSE finish(str_object,
                    JObject_new_kind(char_array_class.m, char_array_class.class,
                                     "ArrayChar", s))
      with_string(str_object) ==
        IF ~str_object.ok THEN fail
        ELSE with_array(str_object, load_class(str_object.m, << "[", "C" >>))
      with_class(string_class) ==
        IF string_class.res # "ok" THEN fail
        ELSE with_string(JObject_new_kind(string_class.m, string_class.class,
                                          "Object", << >>))
  IN  with_class(load_class(m, StringName))

\* JVM::make_java_string
make_java_string(m, s) ==
  LET fail == [ok |-> FALSE, v |-> 0, m |-> m]
      finish(str_object, char_array_object) ==
        IF ~char_array_object.ok THEN fail
        ELSE [ok |-> TRUE, v |-> str_object.v,
              m |-> [set_field(char_array_object.m, str_object.v,
                               << "value", ":", "[", "C" >>,
                               JReference(char_array_object.v))
                       EXCEPT !.interned_strings =
                                MapInsert(@, s, str_object.v)]]
      with_array(str_object, char_array_class) ==
        IF char_array_class.res # "ok" THEN fail
        ELSE finish(str_object,
                    JObject_new_kind(char_array_class.m, char_array_class.class,
                                     "ArrayChar", s))
      with_string(str_object) ==
        IF ~str_object.ok THEN fail
        ELSE with_array(str_object, load_class(str_object.m, << "[", "C" >>))
      with_class(string_class) ==
        IF string_class.res # "ok" THEN fail
        ELSE with_string(JObject_new_kind(string_class.m, string_class.class,
                                          "Object", << >>))
  IN  IF s \in DOMAIN m.interned_strings
      THEN [ok |-> TRUE, v |-> m.interned_strings[s], m |-> m]
      ELSE with_class(load_class(m, StringName))

\* JVM::ldc (also the arm of ldc_w and ldc2_w); d.x is the pool index
ldc(m, d) ==
  LET push(m1, v) == Done(SetTop(m1, Push(Top(m1), v)))
      interned(s) ==
        IF ~s.ok THEN Fail(m) ELSE push(s.m, JReference(s.v))
      resolved(r) ==
        IF ~r.ok THEN Fail(m)
        ELSE CASE r.v.tag = "Integer" -> push(r.m, JInt(r.v.v))
               [] r.v.tag = "Float" -> push(r.m, JFloat(r.v.v))
               [] r.v.tag = "String" -> interned(make_java_string(r.m, r.v.v))
               [] OTHER -> Fail(m)
  IN  resolved(resolve_constant(m, Top(m).class, d.x))

\* JVM::new_op
new_op(m, d) ==
  LET made(reference) ==
        IF ~reference.ok THEN Fail(m)
        ELSE Done(SetTop(reference.m,
                         Push(Top(reference.m), JReference(reference.v))))
      loaded(class) ==
        IF class.res # "ok" THEN Fail(m)
        ELSE made(JObject_new_kind(class.m, class.class, "Object", << >>))
      named(class_name) ==
        IF ~class_name.ok THEN Fail(m)
        ELSE loaded(load_class(m, class_name.v))
  IN  named(get_class_name(m.class_arena[Top(m).class].constant_pool.cp, d.x))

\* JVM::newarray; d.x is the AType code
newarray(m, d) ==
  LET made(reference) ==
        IF ~reference.ok THEN Fail(m)
        ELSE Done(SetTop(reference.m,
                         Push(Top(reference.m), JReference(reference.v))))
  IN  IF Depth(Top(m)) = 0 THEN Fail(m)
      ELSE IF Peek(Top(m), 0).t # "Int" THEN Fail(m)
      ELSE made(new_primitive_array(SetTop(m, Drop(Top(m), 1)), d.x,
                                    Peek(Top(m), 0).v))

\* JVM::ireturn, lreturn, freturn, dreturn, areturn
\* the JValue variant each value-return handler expects
ReturnType(op) ==
  CASE op = "IReturn" -> "Int" [] op = "LReturn" -> "Long"
    [] op = "FReturn" -> "Float" [] op = "DReturn" -> "Double"
    [] op = "AReturn" -> "Reference"

\* a faulty variant of the value returns, used to test that the property of
\* returns below depends on them: the value is popped and lost
ReturnDropsValue(m, d) ==
  IF Depth(Top(m)) = 0 THEN Fail(m)
  ELSE IF Peek(Top(m), 0).t # ReturnType(d.op) THEN Fail(m)
  ELSE Done([m EXCEPT !.thread = SubSeq(m.thread, 1, Len(m.thread) - 1)])

return_value(m, d) ==
  LET frame == Top(m)
      rest == SubSeq(m.thread, 1, Len(m.thread) - 1)
  IN  IF Depth(frame) = 0 THEN Fail(m)
      ELSE IF Peek(frame, 0).t # ReturnType(d.op) THEN Fail(m)
      ELSE IF rest = << >> THEN Done([m EXCEPT !.thread = rest])
      ELSE Done([m EXCEPT !.thread =
                   [rest EXCEPT ![Len(rest)] = Push(@, Peek(frame, 0))]])

\* a faulty variant of return_op, used to test that the property of the
\* depth of the frame stack below depends on it: the frame stays
ReturnKeepsFrame(m, d) == Done(m)

\* JVM::return_op
return_op(m, d) ==
  Done([m EXCEPT !.thread = SubSeq(m.thread, 1, Len(m.thread) - 1)])

\* Method::parse_field_type from token i: the index after the type
RECURSIVE parse_field_type(_, _)
parse_field_type(s, i) ==
  IF i > Len(s) THEN [ok |-> FALSE, next |-> i]
  ELSE CASE s[i] \in {"B", "C", "D", "F", "I", "J", "S", "Z"} -> [ok |-> TRUE, next |-> i + 1]
         [] s[i] = "L" ->
              LET ends == {j \in (i + 1)..Len(s) : s[j] = ";"}
              IN  IF ends = {} THEN [ok |-> TRUE, next |-> Len(s) + 1]
                  ELSE [ok |-> TRUE,
                        next |-> (CHOOSE j \in ends : \A k \in ends : j <= k) + 1]
         [] s[i] = "[" -> parse_field_type(s, i + 1)
         [] OTHER -> [ok |-> FALSE, next |-> i]

\* the argument loop of Method::parse_method_descriptor: each argument as
\* the tokens of its type
RECURSIVE parse_args(_, _, _)
parse_args(s, i, args) ==
  IF i > Len(s) THEN [ok |-> TRUE, next |-> i, args |-> args]
  ELSE IF s[i] = ")" THEN [ok |-> TRUE, next |-> i + 1, args |-> args]
  ELSE LET t == parse_field_type(s, i)
       IN  IF ~t.ok THEN [ok |-> FALSE, next |-> i, args |-> args]
           ELSE parse_args(s, t.next, Append(args, SubSeq(s, i, t.next - 1)))

\* Method::parse_method_descriptor: Ok(args) or Panic
parse_method_descriptor(descriptor) ==
  IF descriptor = << >> THEN Panic
  ELSE IF descriptor[1] # "(" THEN Panic
  ELSE LET a == parse_args(descriptor, 2, << >>)
       IN  IF ~a.ok THEN Panic
           ELSE IF a.next <= Len(descriptor) /\ descriptor[a.next] = "V"
           THEN Ok(a.args)
           ELSE IF parse_field_type(descriptor, a.next).ok THEN Ok(a.args)
           ELSE Panic

\* JVM::getfield; d.x is the pool index.  The field's name is
\* format!("{}:{}", field.name, field.descriptor) of the resolved Field;
\* JObject::get_field unwraps the entry of that name
getfield(m, d) ==
  LET f == Top(m)
      read(m1, r, field) ==
        IF FormatKey(field.name, field.descriptor) \notin DOMAIN m1.heap[r].fields
        THEN Fail(m)
        ELSE Done(SetTop(m1, Push(Drop(f, 1),
               m1.heap[r].fields[FormatKey(field.name, field.descriptor)])))
      resolved(field_ref) ==
        IF ~field_ref.ok THEN Fail(m)
        ELSE IF field_ref.v.tag # "FieldRef" THEN Fail(m)
        ELSE read(field_ref.m, Peek(f, 0).v,
                  field_ref.m.class_arena[field_ref.v.class]
                    .fields[field_ref.v.key])
  IN  IF Depth(f) < 1 THEN Fail(m)
      ELSE IF Peek(f, 0).t # "Reference" THEN Fail(m)
      ELSE resolved(resolve_constant(m, f.class, d.x))

\* a faulty variant of putfield, used to test that the properties of field
\* access below depend on it: the operands are popped and nothing is stored
PutFieldStoresNothing(m, d) ==
  LET f == Top(m)
      resolved(field_ref) ==
        IF ~field_ref.ok THEN Fail(m)
        ELSE IF field_ref.v.tag # "FieldRef" THEN Fail(m)
        ELSE Done(SetTop(field_ref.m, Drop(f, 2)))
  IN  IF Depth(f) < 2 THEN Fail(m)
      ELSE IF Peek(f, 1).t # "Reference" THEN Fail(m)
      ELSE resolved(resolve_constant(m, f.class, d.x))

\* JVM::putfield; d.x is the pool index
putfield(m, d) ==
  LET f == Top(m)
      resolved(field_ref) ==
        IF ~field_ref.ok THEN Fail(m)
        ELSE IF field_ref.v.tag # "FieldRef" THEN Fail(m)
        ELSE LET field == field_ref.m.class_arena[field_ref.v.class]
                            .fields[field_ref.v.key]
             IN  Done(SetTop(set_field(field_ref.m, Peek(f, 1).v,
                                       FormatKey(field.name, field.descriptor),
                                       Peek(f, 0)),
                             Drop(f, 2)))
  IN  IF Depth(f) < 2 THEN Fail(m)
      ELSE IF Peek(f, 1).t # "Reference" THEN Fail(m)
      ELSE resolved(resolve_constant(m, f.class, d.x))

\* JVM::anewarray; d.x is the pool index.  Class::reference_array_class
\* builds a fresh class object; JObject::new_reference_array panics on a
\* negative count and fills the array with None
anewarray(m, d) ==
  LET f == Top(m)
      made(class_name) ==
        IF ~class_name.ok THEN Fail(m)
        ELSE IF Peek(f, 0).v < 0 THEN Fail(m)
        ELSE Done(SetTop(
               [m EXCEPT
                  !.class_arena = Append(@, reference_array_class(class_name.v)),
                  !.heap = Append(@, JObject(Len(m.class_arena) + 1, "ArrayRef",
                                             [i \in 1..Peek(f, 0).v |-> None],
                                             EmptyMap))],
               Push(Drop(f, 1), JReference(Len(m.heap) + 1))))
  IN  IF Depth(f) < 1 THEN Fail(m)
      ELSE IF Peek(f, 0).t # "Int" THEN Fail(m)
      ELSE made(get_class_name(m.class_arena[f.class].constant_pool.cp, d.x))

\* JVM::iaload: array[index as usize] panics unless 0 <= index < len
iaload(m) ==
  LET f == Top(m)
      index == Peek(f, 0)
      object == Peek(f, 1)
  IN  IF Depth(f) < 2 THEN Fail(m)
      ELSE IF index.t # "Int" \/ object.t # "Reference" THEN Fail(m)
      ELSE IF m.heap[object.v].kind # "ArrayInt" THEN Fail(m)
      ELSE IF index.v + 1 \notin DOMAIN m.heap[object.v].elems THEN Fail(m)
      ELSE Done(SetTop(m, Push(Drop(f, 2),
                               JInt(m.heap[object.v].elems[index.v + 1]))))

\* JVM::aaload: as iaload on an ArrayRef, and the element is unwrapped
aaload(m) ==
  LET f == Top(m)
      index == Peek(f, 0)
      object == Peek(f, 1)
  IN  IF Depth(f) < 2 THEN Fail(m)
      ELSE IF index.t # "Int" \/ object.t # "Reference" THEN Fail(m)
      ELSE IF m.heap[object.v].kind # "ArrayRef" THEN Fail(m)
      ELSE IF index.v + 1 \notin DOMAIN m.heap[object.v].elems THEN Fail(m)
      ELSE IF m.heap[object.v].elems[index.v + 1] = None THEN Fail(m)
      ELSE Done(SetTop(m, Push(Drop(f, 2),
                  JReference(m.heap[object.v].elems[index.v + 1][1]))))

\* JVM::iastore
iastore(m) ==
  LET f == Top(m)
      value == Peek(f, 0)
      index == Peek(f, 1)
      obj == Peek(f, 2)
  IN  IF Depth(f) < 3 THEN Fail(m)
      ELSE IF value.t # "Int" \/ index.t # "Int" \/ obj.t # "Reference"
      THEN Fail(m)
      ELSE IF m.heap[obj.v].kind # "ArrayInt" THEN Fail(m)
      ELSE IF index.v + 1 \notin DOMAIN m.heap[obj.v].elems THEN Fail(m)
      ELSE Done(SetTop([m EXCEPT !.heap[obj.v].elems[index.v + 1] = value.v],
                       Drop(f, 3)))

\* JVM::aastore: the value must be a Reference (Null is not)
aastore(m) ==
  LET f == Top(m)
      value == Peek(f, 0)
      index == Peek(f, 1)
      obj == Peek(f, 2)
  IN  IF Depth(f) < 3 THEN Fail(m)
      ELSE IF value.t # "Reference" \/ index.t # "Int" \/ obj.t # "Reference"
      THEN Fail(m)
      ELSE IF m.heap[obj.v].kind # "ArrayRef" THEN Fail(m)
      ELSE IF index.v + 1 \notin DOMAIN m.heap[obj.v].elems THEN Fail(m)
      ELSE Done(SetTop([m EXCEPT !.heap[obj.v].elems[index.v + 1] =
                                   Some(value.v)],
                       Drop(f, 3)))

\* a faulty variant of invokespecial, used to test that the properties of
\* argument passing below depend on it: the popped values are not reversed,
\* so the value on top of the stack becomes the first argument
InvokeInPopOrder(m, d) ==
  LET enter(m1, frame, new_frame, n) ==
        IF Depth(frame) < n + 1 THEN Fail(m)
        ELSE IF Peek(frame, n).t # "Reference" THEN Fail(m)
        ELSE IF Len(new_frame.locals) < n + 1 THEN Fail(m)
        ELSE Done([m1 EXCEPT !.thread =
               Append(SetTop(m1, [Drop(frame, n + 1) EXCEPT !.pc = @ + 3]).thread,
                      [new_frame EXCEPT !.locals =
                         [i \in 1..Len(new_frame.locals) |->
                            IF i = 1 THEN Peek(frame, n)
                            ELSE IF i <= n + 1
                            THEN Peek(frame, i - 2)
                            ELSE new_frame.locals[i]]])])
      parsed(m1, class, key, args) ==
        IF ~args.ok THEN Fail(m)
        ELSE enter(m1, Top(m1), StackFrame_new(m1, class, key), Len(args.v))
      resolved(method_ref) ==
        IF ~method_ref.ok THEN Fail(m)
        ELSE IF method_ref.v.tag # "MethodRef" THEN Fail(m)
        ELSE parsed(method_ref.m, method_ref.v.class, method_ref.v.key,
                    parse_method_descriptor(
                      method_ref.m.class_arena[method_ref.v.class]
                        .methods[method_ref.v.key].descriptor))
  IN  resolved(resolve_constant(m, Top(m).class, d.x))

\* JVM::invokespecial; d.x is the pool index
invokespecial(m, d) ==
  LET enter(m1, frame, new_frame, n) ==
        IF Depth(frame) < n + 1 THEN Fail(m)
        ELSE IF Peek(frame, n).t # "Reference" THEN Fail(m)
        ELSE IF Len(new_frame.locals) < n + 1 THEN Fail(m)
        ELSE Done([m1 EXCEPT !.thread =
               Append(SetTop(m1, [Drop(frame, n + 1) EXCEPT !.pc = @ + 3]).thread,
                      [new_frame EXCEPT !.locals =
                         [i \in 1..Len(new_frame.locals) |->
                            IF i = 1 THEN Peek(frame, n)
                            ELSE IF i <= n + 1
                            THEN frame.operand_stack[Depth(frame) - n + i - 1]
                            ELSE new_frame.locals[i]]])])
      parsed(m1, class, key, args) ==
        IF ~args.ok THEN Fail(m)
        ELSE enter(m1, Top(m1), StackFrame_new(m1, class, key), Len(args.v))
      resolved(method_ref) ==
        IF ~method_ref.ok THEN Fail(m)
        ELSE IF method_ref.v.tag # "MethodRef" THEN Fail(m)
        ELSE parsed(method_ref.m, method_ref.v.class, method_ref.v.key,
                    parse_method_descriptor(
                      method_ref.m.class_arena[method_ref.v.class]
                        .methods[method_ref.v.key].descriptor))
  IN  resolved(resolve_constant(m, Top(m).class, d.x))

(***************************************************************************)
(* The interpreter loop: JVM::run_class and JVM::execute_opcode.           *)
(***************************************************************************)
\* the match of execute_opcode: the handler each Opcode variant is given to.
\* "none" is the catch-all arm `_ => {}`; "unmodelled" are the variants
\* whose handlers this model does not cover (no program of Init uses them)
HandlerOf(op) ==
  CASE op = "Nop" -> "nop"
    [] op \in {"AConstNull", "IConstM1", "IConst0", "IConst1", "IConst2",
               "IConst3", "IConst4", "IConst5", "LConst0", "LConst1",
               "FConst0", "FConst1", "FConst2", "DConst0", "DConst1",
               "BIPush", "SIPush"} -> "push_const"
    [] op \in {"Ldc", "LdcW", "Ldc2W"} -> "ldc"
    [] op \in {"ILoad", "ILoad0", "ILoad1", "ILoad2", "ILoad3", "LLoad",
               "LLoad0", "LLoad1", "LLoad2", "LLoad3", "ALoad", "ALoad0",
               "ALoad1", "ALoad2", "ALoad3"} -> "load"
    [] op \in {"IStore", "IStore0", "IStore1", "IStore2", "IStore3", "LStore",
               "LStore0", "LStore1", "LStore2", "LStore3", "AStore", "AStore0",
               "AStore1", "AStore2", "AStore3"} -> "store"
    [] op \in {"Pop", "Dup"} -> "stack_op"
    [] op = "Pop2" -> "pop2"
    [] op = "Dup2" -> "dup2"
    [] op = "Dup2X2" -> "dup2_x2"
    [] op = "IInc" -> "iinc"
    [] op \in {"IAdd", "ISub", "IMul", "IDiv", "IRem", "LAdd", "LSub", "LMul",
               "LDiv", "LRem", "INeg", "LNeg", "LShl", "LUshr"} -> "math"
    [] op = "I2L" -> "i2l"
    [] op \in {"IfEq", "IfNe", "IfLt", "IfGe", "IfGt", "IfLe"} -> "if_cond"
    [] op \in {"IfICmpEq", "IfICmpNe", "IfICmpLt", "IfICmpGe", "IfICmpGt",
               "IfICmpLe"} -> "if_icmp"
    [] op \in {"IfACmpEq", "IfACmpNe"} -> "if_acmp"
    [] op = "Goto" -> "goto"
    [] op \in {"Jsr", "Ret"} -> "unimplemented"
    [] op = "TableSwitch" -> "tableswitch"
    [] op = "LookupSwitch" -> "lookupswitch"
    [] op \in {"IReturn", "LReturn", "FReturn", "DReturn", "AReturn"} ->
         "return_value"
    [] op = "Return" -> "return_op"
    [] op = "InvokeSpecial" -> "invokespecial"
    [] op = "New" -> "new_op"
    [] op = "NewArray" -> "newarray"
    [] op = "GetField" -> "getfield"
    [] op = "PutField" -> "putfield"
    [] op = "ANewArray" -> "anewarray"
    [] op = "IALoad" -> "iaload"
    [] op = "AALoad" -> "aaload"
    [] op = "IAStore" -> "iastore"
    [] op = "AAStore" -> "aastore"
    [] op \in {"GetStatic", "PutStatic", "InvokeVirtual", "InvokeStatic",
               "InvokeInterface", "InvokeDynamic", "AThrow", "CheckCast",
               "InstanceOf", "MonitorEnter", "MonitorExit", "Wide",
               "MultiANewArray", "IfNull", "IfNonNull", "GotoW", "JsrW",
               "Breakpoint"} -> "none"
    [] OTHER -> "unmodelled"

\* faulty variants of Advance, used to test that the properties of the
\* program counter below depend on it: adding the length whatever the
\* handler did to pc, and adding 1 whatever the length
AdvanceAlways(m, start_pc, len) ==
  IF m.thread = << >> THEN m
  ELSE SetTop(m, [Top(m) EXCEPT !.pc = @ + len])

AdvanceByOne(m, start_pc, len) ==
  IF m.thread = << >> THEN m
  ELSE IF Top(m).pc = start_pc
  THEN SetTop(m, [Top(m) EXCEPT !.pc = @ + 1])
  ELSE m

\* a faulty variant of Advance, used to test that the property of progress
\* below depends on it: pc is left where the handler left it
AdvanceNever(m, start_pc, len) == m

\* the end of a loop iteration of run_class (jvm.rs:63-67): the frame now on
\* top is advanced by the instruction's length if its pc equals start_pc
Advance(m, start_pc, len) ==
  IF m.thread = << >> THEN m
  ELSE IF Top(m).pc = start_pc
  THEN SetTop(m, [Top(m) EXCEPT !.pc = @ + len])
  ELSE m

\* the loop of run_class is at its top with iterations left in the bound
Running == status = "running" /\ steps < MaxSteps

\* the instruction the loop decodes: parse_opcode(&frame.method.code, frame.pc)
Fetched == parse_opcode(MethodOf(Machine, Top(Machine)).code, Top(Machine).pc)

NoLast == [kind |-> "none", d |-> DecodeFail, pc |-> 0, pre |-> << >>]

\* one iteration that decodes an instruction of one of the handlers hs and
\* executes it: parse_opcode(..).unwrap(), the arm of execute_opcode's match
\* (arm is what the arm makes of the machine: Done(m') or, for a panic,
\* Fail(m)), then the advance of pc
Execute(hs, arm) ==
  LET commit(d, start_pc, r, m2) ==
        /\ steps' = steps + 1
        /\ last' = [kind |-> "exec", d |-> d, pc |-> start_pc, pre |-> thread]
        /\ IF r.ok
           THEN /\ thread' = m2.thread
                /\ heap' = m2.heap
                /\ class_arena' = m2.class_arena
                /\ loaded_classes' = m2.loaded_classes
                /\ interned_strings' = m2.interned_strings
                /\ loads' = m2.loads
                /\ callsite' = IF Len(m2.thread) > Len(thread)
                               THEN Append([callsite EXCEPT ![Len(thread)] =
                                                              start_pc], -1)
                               ELSE SubSeq(callsite, 1, Len(m2.thread))
                /\ UNCHANGED status
           ELSE /\ status' = "aborted"
                /\ UNCHANGED << thread, heap, class_arena, loaded_classes,
                                interned_strings, callsite, loads >>
        /\ UNCHANGED << disk, classes, overflow_checks, resolver >>
      decoded(d) ==
        /\ ~d.err
        /\ HandlerOf(d.op) \in hs
        /\ commit(d, Top(Machine).pc, arm,
                  Advance(arm.m, Top(Machine).pc, d.len))
  IN  /\ thread # << >>
      /\ Top(Machine).pc < Len(MethodOf(Machine, Top(Machine)).code)
      /\ decoded(Fetched)

\* run_class(name) up to the loop: load the class, record it, build the frame
\* of main:([Ljava/lang/String;)V
StartClass == << "Main" >>
MainKey ==
  FormatKey(<< "main" >>,
            << "(", "[", "L", "java", "/", "lang", "/", "String", ";", ")", "V" >>)

RunClass ==
  /\ status = "new"
  /\ LET class == load_class(Machine, StartClass)
     IN  IF /\ class.res = "ok"
            /\ MainKey \in DOMAIN class.m.class_arena[class.class].methods
         THEN /\ loaded_classes' = class.m.loaded_classes
              /\ class_arena' = class.m.class_arena
              /\ classes' = MapInsert(classes,
                                      class.m.class_arena[class.class].name,
                                      class.class)
              /\ thread' = << StackFrame_new(class.m, class.class, MainKey) >>
              /\ callsite' = << -1 >>
              /\ loads' = class.m.loads
              /\ status' = "running"
         ELSE /\ status' = "aborted"
              /\ UNCHANGED << loaded_classes, class_arena, classes, thread,
                              callsite, loads >>
  /\ UNCHANGED << disk, overflow_checks, heap, interned_strings, steps, last,
                  resolver >>

\* a faulty variant of Finish, used to test that the property of termination
\* below depends on it: the loop also ends when the top frame has run off
\* the end of its code
FinishAtEnd ==
  /\ status = "running"
  /\ \/ thread = << >>
     \/ Top(Machine).pc >= Len(MethodOf(Machine, Top(Machine)).code)
  /\ status' = "finished"
  /\ last' = [NoLast EXCEPT !.kind = "break"]
  /\ UNCHANGED << disk, overflow_checks, loaded_classes, class_arena, classes,
                  resolver, interned_strings, heap, thread, steps, callsite, loads >>

\* `None => break`, then Ok(())
Finish ==
  /\ status = "running"
  /\ thread = << >>
  /\ status' = "finished"
  /\ last' = [NoLast EXCEPT !.kind = "break"]
  /\ UNCHANGED << disk, overflow_checks, loaded_classes, class_arena, classes,
                  resolver, interned_strings, heap, thread, steps, callsite, loads >>

\* should_pop: frame.pc >= frame.method.code.len()
PopFrame ==
  /\ Running
  /\ thread # << >>
  /\ Top(Machine).pc >= Len(MethodOf(Machine, Top(Machine)).code)
  /\ thread' = SubSeq(thread, 1, Len(thread) - 1)
  /\ callsite' = SubSeq(callsite, 1, Len(thread) - 1)
  /\ steps' = steps + 1
  /\ last' = [NoLast EXCEPT !.kind = "pop", !.pc = Top(Machine).pc,
                            !.pre = thread]
  /\ UNCHANGED << disk, overflow_checks, loaded_classes, class_arena, classes,
                  resolver, interned_strings, heap, status, loads >>

\* parse_opcode(..).unwrap() on an Err, or the panic inside parse_opcode
DecodePanic ==
  /\ Running
  /\ thread # << >>
  /\ Top(Machine).pc < Len(MethodOf(Machine, Top(Machine)).code)
  /\ Fetched.err
  /\ status' = "aborted"
  /\ steps' = steps + 1
  /\ last' = [NoLast EXCEPT !.kind = "decode", !.pc = Top(Machine).pc,
                            !.pre = thread]
  /\ UNCHANGED << disk, overflow_checks, loaded_classes, class_arena, classes,
                  resolver, interned_strings, heap, thread, callsite, loads >>

\* one iteration per section of execute_opcode's match (jvm.rs:74-314)
ExecConstants ==
  Running /\ Execute({"nop", "push_const", "ldc"},
                     CASE HandlerOf(Fetched.op) = "nop" -> Done(Machine)
                       [] HandlerOf(Fetched.op) = "push_const" ->
                            OnTop(Machine, push_const(Top(Machine), Fetched))
                       [] OTHER -> ldc(Machine, Fetched))
ExecLoads ==
  Running /\ Execute({"load", "iaload", "aaload"},
                     CASE HandlerOf(Fetched.op) = "iaload" -> iaload(Machine)
                       [] HandlerOf(Fetched.op) = "aaload" -> aaload(Machine)
                       [] OTHER ->
                            OnTop(Machine, load(Top(Machine), Fetched)))
ExecStores ==
  Running /\ Execute({"store", "iastore", "aastore"},
                     CASE HandlerOf(Fetched.op) = "iastore" -> iastore(Machine)
                       [] HandlerOf(Fetched.op) = "aastore" -> aastore(Machine)
                       [] OTHER ->
                            OnTop(Machine, store(Top(Machine), Fetched)))
ExecStack ==
  Running /\ Execute({"stack_op", "pop2", "dup2", "dup2_x2"},
                     CASE HandlerOf(Fetched.op) = "pop2" ->
                            OnTop(Machine, pop2(Top(Machine)))
                       [] HandlerOf(Fetched.op) = "dup2_x2" ->
                            OnTop(Machine, dup2_x2(Top(Machine)))
                       [] HandlerOf(Fetched.op) = "dup2" ->
                            OnTop(Machine, dup2(Top(Machine)))
                       [] OTHER ->
                            OnTop(Machine, stack_op(Top(Machine), Fetched)))
ExecMath ==
  Running /\ Execute({"math", "iinc"},
                     OnTop(Machine,
                           IF HandlerOf(Fetched.op) = "iinc"
                           THEN iinc(Top(Machine), Fetched, overflow_checks)
                           ELSE math(Top(Machine), Fetched, overflow_checks)))
ExecConversions ==
  Running /\ Execute({"i2l"}, OnTop(Machine, i2l(Top(Machine))))
ExecComparisons ==
  Running /\ Execute({"if_cond", "if_icmp", "if_acmp"},
                     CASE HandlerOf(Fetched.op) = "if_cond" ->
                            OnTop(Machine, if_cond(Top(Machine), Fetched))
                       [] HandlerOf(Fetched.op) = "if_icmp" ->
                            OnTop(Machine,
                                  if_icmp(Top(Machine), ICmpHandler(Fetched.op),
                                          Fetched.x))
                       [] OTHER ->
                            OnTop(Machine, if_acmp(Top(Machine), Fetched)))
ExecBranch ==
  Running /\ Execute({"goto", "tableswitch", "lookupswitch", "unimplemented"},
                     CASE HandlerOf(Fetched.op) = "goto" ->
                            OnTop(Machine, goto(Top(Machine), Fetched.x))
                       [] HandlerOf(Fetched.op) = "tableswitch" ->
                            OnTop(Machine, tableswitch(Top(Machine), Fetched))
                       [] HandlerOf(Fetched.op) = "lookupswitch" ->
                            OnTop(Machine, lookupswitch(Top(Machine), Fetched))
                       [] OTHER -> Fail(Machine))
ExecReturn ==
  Running /\ Execute({"return_value", "return_op"},
                     IF HandlerOf(Fetched.op) = "return_value"
                     THEN return_value(Machine, Fetched)
                     ELSE return_op(Machine, Fetched))
ExecInvokeSpecial ==
  Running /\ Execute({"invokespecial"}, invokespecial(Machine, Fetched))
ExecFields ==
  Running /\ Execute({"getfield", "putfield"},
                     IF HandlerOf(Fetched.op) = "getfield"
                     THEN getfield(Machine, Fetched)
                     ELSE putfield(Machine, Fetched))
ExecAllocate ==
  Running /\ Execute({"new_op", "newarray", "anewarray"},
                     CASE HandlerOf(Fetched.op) = "new_op" ->
                            new_op(Machine, Fetched)
                       [] HandlerOf(Fetched.op) = "newarray" ->
                            newarray(Machine, Fetched)
                       [] OTHER -> anewarray(Machine, Fetched))
\* the opcodes with no arm in the match fall to `_ => {}`
ExecReserved == Running /\ Execute({"none"}, Done(Machine))

(***************************************************************************)
(* The runs explored.  A run is fixed by the class file Main.class in the  *)
(* working directory and by the build; Init draws the class file from      *)
(* families of small programs.  A program is the method main, one more     *)
(* method f with a chosen descriptor, and two Integer constants.           *)
(***************************************************************************)
\* bound: the number of nops a family may put before its instructions
MaxPad == 1

\* big-endian operand bytes of an i16 / i32
I16B(k) == << (k % 65536) \div 256, k % 256 >>
I32B(k) == I16B((k \div 65536) % 65536) \o I16B(k % 65536)
Nops(n) == [i \in 1..n |-> 0]

Prog(main, max_stack, max_locals, f, f_locals, descriptor, a, b) ==
  [main |-> main, max_stack |-> max_stack, max_locals |-> max_locals,
   f |-> f, f_locals |-> f_locals, descriptor |-> descriptor,
   a |-> a, b |-> b]

\* a program of main alone
Plain(main) == Prog(main, 4, 2, << 177 >>, 1, << "(", ")", "V" >>, 0, 1)

\* a second class, in Other.class of the working directories that have one
OtherClass == << "Other" >>

\* the Main.class of a program (reader.rs: ClassFile), as read_file takes
\* it: the entries of the pool are those of indices 1, 2, ... and the class
\* declares the fields x:I, y:J, r:Ljava/lang/Object;, d:D and a:[I
ClassFileOf(p) ==
  LET utf8(s) == [tag |-> "Utf8", string |-> s]
      class(i) == [tag |-> "Class", name_index |-> i]
      nt(n, d) == [tag |-> "NameAndType", name_index |-> n,
                   descriptor_index |-> d]
      mref(c, n) == [tag |-> "MethodRef", class_index |-> c,
                     name_and_type_index |-> n]
      int(v) == [tag |-> "Integer", bytes |-> v]
      str(i) == [tag |-> "String", string_index |-> i]
      fref(c, n) == [tag |-> "FieldRef", class_index |-> c,
                     name_and_type_index |-> n]
      field(n, d) == [name_index |-> n, descriptor_index |-> d]
      cp_info ==
        << utf8(StartClass), class(1), utf8(<< "main" >>),
           utf8(<< "(", "[", "L", "java", "/", "lang", "/", "String", ";",
                   ")", "V" >>),
           utf8(<< "f" >>), utf8(p.descriptor), nt(5, 6), mref(2, 7),
           int(p.a), int(p.b), utf8(ObjectName), class(11),
           utf8(<< "<init>" >>), utf8(<< "(", ")", "V" >>), nt(13, 14),
           mref(12, 15), str(1), utf8(<< "Missing" >>), class(18),
           utf8(OtherClass), class(20), mref(21, 7),
           str(3), str(1), utf8(<< "x" >>), utf8(<< "I" >>), nt(25, 26),
           fref(2, 27), fref(21, 27), utf8(<< "y" >>), utf8(<< "J" >>),
           nt(30, 31), fref(2, 32), utf8(<< "r" >>),
           utf8(<< "L" >> \o ObjectName \o << ";" >>), nt(34, 35),
           fref(2, 36), fref(2, 7), utf8(<< "d" >>), utf8(<< "D" >>),
           utf8(<< "a" >>), utf8(<< "[", "I" >>), nt(39, 40), fref(2, 43),
           nt(41, 42), fref(2, 45) >>
      method(n, d, code, max_stack, max_locals) ==
        [name_index |-> n, descriptor_index |-> d,
         code |-> Some([code |-> code, max_stack |-> max_stack,
                        max_locals |-> max_locals])]
  IN  [constant_pool_count |-> Len(cp_info) + 1,
       cp_info |-> cp_info,
       access_flags |-> 33,
       this_class |-> 2,
       super_class |-> 12,
       fields |-> << field(25, 26), field(30, 31), field(34, 35),
                     field(39, 40), field(41, 42) >>,
       methods |-> << method(3, 4, p.main, p.max_stack, p.max_locals),
                      method(5, 6, p.f, 4, p.f_locals) >>]

\* iconst_0; newarray int: a fresh reference on the stack
NewRef == << 3, 188, 10 >>

Programs ==
  LET \* goto, if<cond>, if_icmp<cond> and if_acmp<cond> over operands -1..1 (or
      \* references), to targets before, inside, at the end of and beyond the code
      BranchPrograms ==
        LET BranchOffsets == {-3, -2, -1, 0, 3, 5, 6, 7, 100}
            heads ==
              {<< << 3 + a, 3 + b >>, op >> : a \in -1..1, b \in -1..1, op \in 159..164}
              \cup {<< << 3 + a >>, op >> : a \in -1..1, op \in 153..158}
              \cup {<< << >>, 167 >>}
              \cup {<< r, op >> : r \in {NewRef \o << 89 >>, NewRef \o NewRef,
                                        NewRef \o << 1 >>, << 1, 1 >>},
                                  op \in 165..166}
        IN  {Plain(Nops(i) \o h[1] \o << h[2] >> \o I16B(k) \o << 0, 0, 177 >>) :
               i \in 0..MaxPad, h \in heads, k \in BranchOffsets}

      \* tableswitch (low 0, high 1) and lookupswitch (keys 0 and 1) at pc 1
      SwitchPrograms ==
        LET SwitchOffsets == {-2, -1, 0, 25, 29, 30}
        IN  {Plain(<< 3 + a, 170, 0, 0 >> \o I32B(dflt) \o I32B(0) \o I32B(1)
                     \o I32B(o) \o I32B(25) \o << 0, 177 >>) :
               a \in -1..2, dflt \in SwitchOffsets, o \in SwitchOffsets}
            \cup
            {Plain(<< 3 + a, 171, 0, 0 >> \o I32B(dflt) \o I32B(2) \o I32B(0)
                     \o I32B(o) \o I32B(1) \o I32B(29) \o << 0, 177 >>) :
               a \in -1..2, dflt \in SwitchOffsets, o \in SwitchOffsets}

      \* invokespecial of f from main at pc p = i + 4 + (number of arguments),
      \* below an int on main's stack; f is j nops and then a body that returns,
      \* with the pads chosen so that some return opcodes sit at pc p + 3
      InvokePrograms ==
        LET CalleePads == {0, 1, 6, 7, 8, 9}
            CalleeBodies ==
              {<< 177 >>, << >>, << 4, 172 >>, << 9, 173 >>, << 11, 174 >>,
               << 14, 175 >>, << 42, 176 >>, << 172 >>, << 9, 172 >>,
               << 3, 4, 172 >>}
        IN  {Prog(Nops(i) \o << 5 >> \o NewRef \o s[2] \o << 183, 0, 8, 0, 177 >>,
                  4, 1, Nops(j) \o body, n, s[1], 0, 1) :
               i \in 0..MaxPad, j \in CalleePads, body \in CalleeBodies, n \in 1..2,
               s \in {<< << "(", ")", "V" >>, << >> >>,
                      << << "(", "I", ")", "I" >>, << 4 >> >>}}
            \cup
            {Prog(main, 4, 1, f, n, << "(", ")", "V" >>, 0, 1) :
               main \in {<< 183, 0, 8, 177 >>, NewRef \o << 183, 0, 8, 177 >>,
                         NewRef \o << 183, 0, 16, 177 >>, << 1, 183, 0, 8, 177 >>,
                         NewRef \o << 183, 0, 9, 177 >>,
                         << 0 >> \o NewRef \o << 183, 0, 8, 172 >>},
               f \in {<< 42, 183, 0, 8, 177 >>, << 183, 0, 8, 177 >>, << 4, 172 >>},
               n \in 0..1}

      \* the arithmetic handlers on the pool's Integer constants; a long operand
      \* is ldc, i2l, bipush sh, lshl
      \* LUshrCounts are the shift counts given to lushr by bipush (others come
      \* from the pool)
      MathPrograms ==
        LET MathOperands == {I32_MIN, -1, 0, 1, 2, I32_MAX}
            LUshrCounts == {4, 16, 31, 32, 33, 48}
            long(index, sh) == << 18, index, 133, 16, sh, 121 >>
        IN  {Prog(code, 4, 1, << 177 >>, 1, << "(", ")", "V" >>, a, b) :
               a \in MathOperands, b \in MathOperands,
               code \in {<< 18, 9, 18, 10, op, 87, 177 >> : op \in {96, 100, 104, 108, 112}}
                        \cup {<< 18, 9, 116, 87, 177 >>, << 18, 9, 18, 10, 97, 177 >>,
                              << 18, 9, 117, 177 >>}
                        \cup {long(9, s1) \o long(10, s2) \o << op, 87, 177 >> :
                                s1 \in {0, 32}, s2 \in {0, 32},
                                op \in {97, 101, 105, 109, 113}}
                        \cup {long(9, s1) \o << 117, 87, 177 >> : s1 \in {0, 32}}
                        \cup {long(9, s1) \o << 18, 10, 125, 87, 177 >> :
                                s1 \in {0, 32}}}
            \cup
            {Prog(long(9, s1) \o << 16, s, 125, 87, 177 >>, 4, 1, << 177 >>, 1,
                  << "(", ")", "V" >>, a, 0) :
               a \in MathOperands, s1 \in {0, 32}, s \in LUshrCounts}
            \cup
            {Prog(<< 18, 10, 59, 18, 9, 60, 5, 132, n, c, 87, 177 >>, 4, 2,
                  << 177 >>, 1, << "(", ")", "V" >>, a, 7) :
               a \in MathOperands, n \in 0..2, c \in {0, 1, 127, 128, 255}}
            \cup
            {Prog(code \o << 132, n, 1, 177 >>, 4, 2, << 177 >>, 1,
                  << "(", ")", "V" >>, 0, 0) :
               n \in 0..1, code \in {<< >>, << 9, 63 >>, << 3, 188, 10, 75 >>}}

      \* pushes against max_stack and local indices against max_locals
      StackPrograms ==
        {Prog(code, max_stack, max_locals, << 177 >>, 1, << "(", ")", "V" >>, 0, 1) :
           max_stack \in 0..2, max_locals \in 0..2,
           code \in {<< 3, 3, 3, 87, 89, 177 >>, << 87 >>, << 89 >>, << 26 >>, << 42, 176 >>}
                    \cup {<< 4, 59 + n, 26 + n, 177 >> : n \in 0..3}
                    \cup {<< 4, 54, n, 21, n, 177 >> : n \in 0..3}
                    \cup {<< 1, 75 + n, 42 + n, 177 >> : n \in 0..3}
                    \cup {<< 9, 63 + n, 30 + n, 177 >> : n \in 0..3}
                    \cup {<< 9, 55, n, 22, n, 4, 58, n, 25, n >> : n \in 0..1}
                    \cup {<< 6, 3, 4, 9, 94, 177 >>, << 3, 4, 9, 94, 177 >>,
                          << 1, 3, 9, 94, 177 >>, << 9, 10, 94, 177 >>,
                          << 5, 9, 10, 94, 177 >>, << 10, 3, 4, 94, 177 >>,
                          << 3, 4, 5, 6, 94, 177 >>, << 9, 10, 3, 94, 177 >>,
                          << 9, 94 >>, << 94 >>}}

      \* the remaining instructions: constants, ldc of each kind of pool entry,
      \* new, the opcodes without a handler, jsr / ret, reserved bytes, and code
      \* that ends inside an instruction
      MiscPrograms ==
        {Prog(Nops(i) \o instr \o << 0, 177 >>, 16, 2, << 177 >>, 1,
              << "(", ")", "V" >>, 0, 1) :
           i \in 0..MaxPad,
           instr \in {<< 2, 5, 6, 7, 8, 9, 10, 11, 12, 13, 14, 15, 1 >>,
                      << 16, 200, 17, 255, 0, 17, 1, 0 >>,
                      << 18, 17, 18, 17, 166, 0, 4, 0 >>, << 18, 17, 87, 18, 17 >>,
                      << 18, 2 >>, << 18, 8 >>, << 18, 7 >>, << 18, 30 >>,
                      << 19, 0, 9 >>, << 20, 0, 10 >>,
                      << 187, 0, 2 >>, << 187, 0, 12 >>, << 187, 0, 19 >>,
                      << 187, 0, 1 >>, << 2, 188, 10 >>, << 5, 188, 11 >>,
                      << 178, 0, 8 >>, << 179, 0, 8 >>, << 182, 0, 8 >>,
                      << 184, 0, 8 >>, << 185, 0, 8, 1, 1 >>, << 185, 0, 8, 1, 0 >>,
                      << 186, 0, 8 >>, << 191 >>, << 192, 0, 2 >>, << 193, 0, 2 >>,
                      << 194 >>, << 195 >>, << 196, 21, 0, 1 >>,
                      << 196, 132, 0, 1, 0, 1 >>, << 196, 0, 0, 0 >>,
                      << 197, 0, 2, 1 >>, << 198, 0, 5 >>, << 199, 0, 5 >>,
                      << 1, 198, 0, 5 >>, << 200, 0, 0, 0, 6 >>,
                      << 201, 0, 0, 0, 6 >>, << 202 >>, << 168, 0, 3 >>,
                      << 169, 0 >>, << 203 >>, << 255 >>, << 3, 188, 3 >>,
                      << 5, 10, 92, 88, 88 >>, << 5, 15, 92, 88 >>,
                      << 5, 3, 4, 88 >>, << 5, 3, 4, 92, 88 >>, << 9, 3, 88 >>,
                      << 3, 88 >>, << 88 >>, << 92 >>, << 3, 92 >>, << 15, 88 >>}}
        \cup
        {Plain(code) : code \in {<< >>, << 0 >>, << 16 >>, << 17, 0 >>, << 167, 0 >>,
                                 << 183, 0 >>, << 188 >>, << 196 >>, << 196, 21, 0 >>,
                                 << 170, 0, 0, 0, 0, 0 >>, << 171, 0, 0, 0 >>,
                                 << 3, 170, 0, 0 >> \o I32B(0) \o I32B(1) \o I32B(0),
                                 << 3, 171, 0, 0 >> \o I32B(0) \o I32B(-1)}}

      \* strings, fields, arrays and arguments: ldc of String entries of equal
      \* and of different text, in main and in f; invokespecial of f with two
      \* arguments (an int, a long or a reference first) and f reading its
      \* locals; int and reference arrays of length 0..2 stored and loaded at
      \* indices -1..2; new, putfield and getfield through aliases in main and
      \* in f, on the declared fields and on a name no class declares
      ReferencePrograms ==
        LET Refs(main) ==
              Prog(main, 16, 2, << 177 >>, 1, << "(", ")", "V" >>, 0, 1)
            NewMain == << 187, 0, 2 >>
        IN  {Prog(<< 0 >> \o NewRef \o << 183, 0, 8 >> \o rest, 16, 2, f, 1,
                  << "(", ")", "V" >>, 0, 1) :
               rest \in {<< 18, 17, 18, 24, 18, 23, 18, 17, 177 >>,
                         << 18, 23, 18, 17, 177 >>},
               f \in {<< 177 >>, << 18, 17, 87, 18, 23, 87, 177 >>,
                      << 18, 24, 87, 177 >>}}
            \cup
            {Prog(NewRef \o s[2] \o << 183, 0, 8, 177 >>, 16, 2, f, n, s[1], 0, 1) :
               s \in {<< << "(", "I", "I", ")", "V" >>, << 4, 5 >> >>,
                      << << "(", "J", "I", ")", "V" >>, << 10, 5 >> >>,
                      << << "(", "I", "J", ")", "V" >>, << 5, 10 >> >>,
                      << << "(", "L" >> \o ObjectName \o << ";", "I", ")", "V" >>,
                         << 1, 5 >> >>},
               f \in {<< 177 >>, << 27, 87, 177 >>, << 28, 87, 177 >>,
                      << 29, 87, 177 >>, << 31, 88, 177 >>},
               n \in 2..4}
            \cup
            {Refs(<< 3 + len, 188, 10 >> \o put \o << 3 + j, 46, 87, 177 >>) :
               len \in 0..2, j \in -1..2,
               put \in {<< >>} \cup {<< 89, 3 + i, 8, 79 >> : i \in -1..2}}
            \cup
            {Refs(<< 3 + len, 189, 0, 2 >> \o put \o << 3 + j, 50, 87, 177 >>) :
               len \in 0..2, j \in -1..2,
               put \in {<< >>, << 89, 3, 1, 83 >>}
                         \cup {<< 89, 3 + i >> \o NewRef \o << 83 >> : i \in -1..2}}
            \cup
            {Refs(code) :
               code \in {<< 2, 189, 0, 2, 177 >>, << 3, 189, 0, 1, 177 >>,
                         << 1, 189, 0, 2, 177 >>, << 189, 0, 2 >>,
                         << 4, 189, 0, 2, 3, 46, 177 >>,
                         << 4, 188, 10, 3, 50, 177 >>,
                         << 4, 189, 0, 2, 87, 4, 189, 0, 2, 87, 4, 189, 0, 12, 177 >>,
                         << 1, 3, 46 >>, << 3, 46 >>, << 1, 3, 4, 79 >>, << 79 >>,
                         << 4, 188, 10, 3, 1, 79 >>, << 4, 188, 10, 3, 4, 83 >>}}
            \cup
            {Refs(NewMain \o << 180, 0, k, 87, 177 >>) : k \in {28, 33, 37, 44, 46, 38, 8}}
            \cup
            {Refs(NewMain \o << 76, 43 >> \o v[1] \o << 181, 0, v[2], 43, 180, 0, k,
                               87, 177 >>) :
               v \in {<< << 8 >>, 28 >>, << << 10 >>, 33 >>, << NewRef, 37 >>,
                      << << 8 >>, 38 >>, << << 8 >>, 8 >>},
               k \in {28, 33, 37}}
            \cup
            {Refs(code) :
               code \in {NewMain \o << 76 >> \o NewMain \o << 8, 181, 0, 28, 43,
                                                            180, 0, 28, 87, 177 >>,
                         << 187, 0, 12, 89, 180, 0, 28, 177 >>,
                         << 187, 0, 12, 89, 7, 181, 0, 28, 180, 0, 28, 87, 177 >>,
                         << 1, 180, 0, 28 >>, << 180, 0, 28 >>, << 181, 0, 28 >>,
                         << 1, 4, 181, 0, 28 >>, << 4, 181, 0, 28 >>,
                         NewMain \o << 8, 181, 0, 100 >>}}
            \cup
            {Prog(NewMain \o << 89, 89, 7, 181, 0, 28, 183, 0, 8, 180, 0, 28, 87,
                               177 >>, 16, 2, f, 1, << "(", ")", "V" >>, 0, 1) :
               f \in {<< 177 >>, << 42, 180, 0, 28, 87, 177 >>,
                      << 42, 5, 181, 0, 28, 42, 180, 0, 28, 87, 177 >>}}
  IN  BranchPrograms \cup SwitchPrograms \cup InvokePrograms \cup MathPrograms
        \cup StackPrograms \cup MiscPrograms \cup ReferencePrograms

\* the working directories: Main.class of a program, Main.class and
\* Other.class of a pair of programs (Other extends Main and declares no
\* field), Main.class without a main method, no Main.class at all, and a
\* Main.class whose pool ends with a Long or Double entry (index 47) and an
\* Integer entry after it.  The class-file format gives the Long two
\* indices and counts both in constant_pool_count (slots = 2); a file that
\* counts one index per entry (slots = 1) is the other case.  The last
\* directories hold Main.class and p/Other.class, both with ten more pool
\* entries: the class p/Other under its dotted name (48) and its binary
\* name (50), java/lang/String (52) and its field value of type [C (56).
Disks ==
  LET \* pairs of programs, for Main.class and Other.class: main invokes Other.f
      \* (pool index 22) and goes on; Other.f and Main.f resolve constants of
      \* their own pools (ldc of an Integer and of a String, invokespecial of
      \* Main.f, new of both classes), some of them twice, or main reads or
      \* writes the field x:I through a FieldRef that names Other (pool index 29)
      TwoClassPrograms ==
        {<< Prog(NewRef \o << 183, 0, 22 >> \o rest, 4, 1, f, 1,
                 << "(", ")", "V" >>, 0, 1),
            Prog(<< 177 >>, 4, 1, g, 1, << "(", ")", "V" >>, 2, 3) >> :
           rest \in {<< 177 >>, << 18, 9, 87, 18, 9, 87, 177 >>,
                     NewRef \o << 183, 0, 22, 177 >>, NewRef \o << 183, 0, 8, 177 >>,
                     << 187, 0, 21, 87, 187, 0, 2, 87, 177 >>,
                     << 0, 18, 24, 87, 18, 23, 87, 177 >>,
                     << 0, 187, 0, 2, 180, 0, 29, 87, 177 >>,
                     << 0, 187, 0, 2, 3, 181, 0, 29, 177 >>},
           f \in {<< 177 >>, << 18, 9, 87, 177 >>, << 18, 17, 87, 177 >>},
           g \in {<< 177 >>, << 18, 9, 87, 18, 9, 87, 177 >>,
                  << 42, 183, 0, 8, 18, 9, 87, 177 >>,
                  << 187, 0, 2, 87, 187, 0, 21, 87, 177 >>,
                  << 18, 17, 87, 18, 17, 87, 177 >>}}
  IN  {[path \in {ClassPath(StartClass)} |-> ClassFileOf(p)] : p \in Programs}
      \cup {[path \in {ClassPath(StartClass), ClassPath(OtherClass)} |->
               IF path = ClassPath(StartClass)
               THEN ClassFileOf(pq[1])
               ELSE [ClassFileOf(pq[2]) EXCEPT !.this_class = 21,
                                               !.super_class = 2,
                                               !.fields = << >>]] :
              pq \in TwoClassPrograms}
      \cup {[path \in {ClassPath(StartClass)} |->
               [ClassFileOf(Plain(code)) EXCEPT
                  !.cp_info = @ \o << wide, [tag |-> "Integer", bytes |-> 7] >>,
                  !.constant_pool_count = @ + 1 + slots]] :
              code \in {<< 20, 0, 47, 177 >>, << 20, 0, 47, 88, 177 >>,
                        << 18, 48, 87, 177 >>, << 18, 49, 87, 177 >>, << 177 >>},
              wide \in {[tag |-> "Long", bytes |-> << 5, 0, 1, 0 >>],
                        [tag |-> "Double", bytes |-> 1]},
              slots \in 1..2}
      \cup {[path \in {ClassPath(StartClass), ClassPath(<< "p", "/", "Other" >>)} |->
               [ClassFileOf(Plain(code)) EXCEPT
                  !.cp_info = @ \o
                    << [tag |-> "Utf8", string |-> << "p", ".", "Other" >>],
                       [tag |-> "Class", name_index |-> 47],
                       [tag |-> "Utf8", string |-> << "p", "/", "Other" >>],
                       [tag |-> "Class", name_index |-> 49],
                       [tag |-> "Utf8", string |-> StringName],
                       [tag |-> "Class", name_index |-> 51],
                       [tag |-> "Utf8", string |-> << "value" >>],
                       [tag |-> "Utf8", string |-> << "[", "C" >>],
                       [tag |-> "NameAndType", name_index |-> 53,
                        descriptor_index |-> 54],
                       [tag |-> "FieldRef", class_index |-> 52,
                        name_and_type_index |-> 55] >>,
                  !.constant_pool_count = @ + 10,
                  !.this_class = IF path = ClassPath(StartClass) THEN 2 ELSE 50]] :
              code \in {<< 187, 0, 48, 87, 187, 0, 50, 87, 177 >>,
                        << 187, 0, 50, 87, 187, 0, 48, 87, 177 >>,
                        << 187, 0, 50, 87, 187, 0, 50, 87, 177 >>,
                        << 187, 0, 48, 87, 187, 0, 48, 87, 177 >>,
                        << 18, 17, 180, 0, 56, 87, 177 >>,
                        << 18, 17, 3, 188, 5, 181, 0, 56, 177 >>,
                        << 187, 0, 52, 180, 0, 56, 87, 177 >>}}
      \cup {[path \in {ClassPath(StartClass)} |->
               [ClassFileOf(Plain(<< 177 >>)) EXCEPT !.methods = Tail(@)]],
            EmptyMap}

\* no call of resolve_constant in progress and none made yet.  at is the
\* statement the call is at; class and index are its pool and argument;
\* shared and mut are the borrows of that pool's resolved_constants (the
\* Ref count and the RefMut flag of the RefCell); resolved is the value
\* being inserted, then the value returned; calls counts the calls; handles
\* keeps the first value returned for each index (observation only)
Idle ==
  [at |-> "idle", class |-> 0, index |-> 0, shared |-> 0, mut |-> FALSE,
   resolved |-> Resolved("None", 0, 0, << >>), calls |-> 0,
   handles |-> EmptyMap]

\* the state after JVM::new(), before run_class(StartClass)
Init ==
  /\ disk \in Disks
  /\ overflow_checks \in BOOLEAN
  /\ class_arena = DefaultClasses
  /\ loaded_classes = load_default_classes
  /\ classes = EmptyMap
  /\ interned_strings = EmptyMap
  /\ heap = << >>
  /\ thread = << >>
  /\ status = "new"
  /\ steps = 0
  /\ last = NoLast
  /\ callsite = << >>
  /\ loads = << >>
  /\ resolver = Idle

Next ==
  \/ RunClass
  \/ Finish
  \/ PopFrame
  \/ DecodePanic
  \/ ExecConstants
  \/ ExecLoads
  \/ ExecStores
  \/ ExecStack
  \/ ExecMath
  \/ ExecConversions
  \/ ExecComparisons
  \/ ExecBranch
  \/ ExecReturn
  \/ ExecInvokeSpecial
  \/ ExecFields
  \/ ExecAllocate
  \/ ExecReserved

Spec == Init /\ [][Next]_vars

\* run_class has returned or panicked, or the bound on the iterations is
\* reached: the states without a next step
Halted ==
  \/ status \in {"aborted", "finished"}
  \/ status = "running" /\ thread # << >> /\ steps >= MaxSteps

\* a step of run_class, by what every step changes: status (the call and
\* the break) or the count of iterations
Iterate ==
  /\ ~Halted
  /\ status' \in {"running", "aborted", "finished"}
  /\ steps' \in {steps, steps + 1}

\* the loop of run_class keeps iterating: `loop { .. }` has no exit but
\* `None => break` and a panic, so a step that can be taken is taken
FairSpec == Spec /\ WF_<< status, steps >>(Iterate)

(***************************************************************************)
(* resolve_constant statement by statement (constant_pool.rs:63-104).  The *)
(* probe `if let Some(resolved) = self.resolved_constants.borrow()         *)
(* .get(&index)` holds a shared borrow for that statement; the match calls *)
(* loader.load_class; `self.resolved_constants.borrow_mut().insert(..)`    *)
(* holds a mutable borrow for that statement.  RefCell panics on borrow()  *)
(* while mutably borrowed and on borrow_mut() while borrowed.  load_class  *)
(* and Class::from_classfile call no resolve_constant (class_loader.rs:    *)
(* 70-81, class.rs:16-41), so a call begins only when none is in progress. *)
(***************************************************************************)
\* bound: the calls of resolve_constant in a run of ResolverSpec
MaxResolves == 2

\* the working directories of ResolverSpec: those with two class files
ResolverInit == Init /\ ~overflow_checks /\ Cardinality(DOMAIN disk) = 2

\* a handler calls frame.class.constant_pool.resolve_constant(index, ..):
\* the borrow() of the probe
Probe(index) ==
  /\ status = "running"
  /\ thread # << >>
  /\ resolver.at = "idle"
  /\ resolver.calls < MaxResolves
  /\ IF resolver.mut
     THEN /\ status' = "aborted"
          /\ resolver' = [resolver EXCEPT !.at = "already_borrowed"]
     ELSE /\ resolver' = [resolver EXCEPT !.at = "probe",
                                          !.class = Top(Machine).class,
                                          !.index = index,
                                          !.shared = @ + 1,
                                          !.calls = @ + 1]
          /\ UNCHANGED status
  /\ UNCHANGED << disk, overflow_checks, loaded_classes, class_arena, classes,
                  interned_strings, heap, thread, steps, last, callsite,
                  loads >>

\* a faulty variant of Match, used to test that the property of the
\* borrows below depends on it: the borrow of the probe is kept after a miss
MatchHoldingBorrow ==
  /\ status = "running"
  /\ resolver.at = "probe"
  /\ LET pool == class_arena[resolver.class].constant_pool
         now == resolve_constant(Machine, resolver.class, resolver.index)
         panic == /\ status' = "aborted"
                  /\ resolver' = [resolver EXCEPT !.at = "panicked"]
     IN  IF resolver.index \in DOMAIN pool.resolved_constants
         THEN /\ resolver' =
                   [resolver EXCEPT
                      !.at = "idle", !.shared = @ - 1,
                      !.resolved = pool.resolved_constants[resolver.index],
                      !.handles =
                        IF resolver.index \in DOMAIN @ THEN @
                        ELSE MapInsert(@, resolver.index,
                               pool.resolved_constants[resolver.index])]
              /\ UNCHANGED status
         ELSE IF resolver.index + 1 \notin DOMAIN pool.cp THEN panic
         ELSE IF pool.cp[resolver.index + 1].tag
                   \in {"Class", "FieldRef", "MethodRef"}
         THEN /\ resolver' = [resolver EXCEPT !.at = "loader"]
              /\ UNCHANGED status
         ELSE IF now.ok
         THEN /\ resolver' = [resolver EXCEPT !.at = "insert",
                                              !.resolved = now.v]
              /\ UNCHANGED status
         ELSE panic
  /\ UNCHANGED << disk, overflow_checks, loaded_classes, class_arena, classes,
                  interned_strings, heap, thread, steps, last, callsite,
                  loads >>

\* the rest of the probe and the match up to its call of the loader: a hit
\* returns the clone of the cached value; the temporary Ref is dropped at
\* the end of the `if let` statement either way; `&self.cp[index]` panics
\* beyond the pool; the Integer, Float and String arms build the value, the
\* Class, FieldRef and MethodRef arms call loader.load_class, and the
\* other entries are unimplemented!()
Match ==
  /\ status = "running"
  /\ resolver.at = "probe"
  /\ LET pool == class_arena[resolver.class].constant_pool
         now == resolve_constant(Machine, resolver.class, resolver.index)
         panic == /\ status' = "aborted"
                  /\ resolver' = [resolver EXCEPT !.at = "panicked",
                                                  !.shared = @ - 1]
     IN  IF resolver.index \in DOMAIN pool.resolved_constants
         THEN /\ resolver' =
                   [resolver EXCEPT
                      !.at = "idle", !.shared = @ - 1,
                      !.resolved = pool.resolved_constants[resolver.index],
                      !.handles =
                        IF resolver.index \in DOMAIN @ THEN @
                        ELSE MapInsert(@, resolver.index,
                               pool.resolved_constants[resolver.index])]
              /\ UNCHANGED status
         ELSE IF resolver.index + 1 \notin DOMAIN pool.cp THEN panic
         ELSE IF pool.cp[resolver.index + 1].tag
                   \in {"Class", "FieldRef", "MethodRef"}
         THEN /\ resolver' = [resolver EXCEPT !.at = "loader",
                                              !.shared = @ - 1]
              /\ UNCHANGED status
         ELSE IF now.ok
         THEN /\ resolver' = [resolver EXCEPT !.at = "insert",
                                              !.shared = @ - 1,
                                              !.resolved = now.v]
              /\ UNCHANGED status
         ELSE panic
  /\ UNCHANGED << disk, overflow_checks, loaded_classes, class_arena, classes,
                  interned_strings, heap, thread, steps, last, callsite,
                  loads >>

\* loader.load_class(..).unwrap() and the rest of the arm: the registry and
\* the class arena as load_class leaves them, the cache not yet written
Load ==
  /\ status = "running"
  /\ resolver.at = "loader"
  /\ LET c == resolver.class
         now == resolve_constant(Machine, c, resolver.index)
     IN  IF now.ok
         THEN /\ loaded_classes' = now.m.loaded_classes
              /\ class_arena' =
                   [now.m.class_arena EXCEPT
                      ![c].constant_pool.resolved_constants =
                        class_arena[c].constant_pool.resolved_constants]
              /\ loads' = now.m.loads
              /\ resolver' = [resolver EXCEPT !.at = "insert",
                                              !.resolved = now.v]
              /\ UNCHANGED status
         ELSE /\ status' = "aborted"
              /\ resolver' = [resolver EXCEPT !.at = "panicked"]
              /\ UNCHANGED << loaded_classes, class_arena, loads >>
  /\ UNCHANGED << disk, overflow_checks, classes, interned_strings, heap,
                  thread, steps, last, callsite >>

\* self.resolved_constants.borrow_mut()
BorrowMut ==
  /\ status = "running"
  /\ resolver.at = "insert"
  /\ IF resolver.shared > 0 \/ resolver.mut
     THEN /\ status' = "aborted"
          /\ resolver' = [resolver EXCEPT !.at = "already_borrowed"]
     ELSE /\ resolver' = [resolver EXCEPT !.at = "inserting", !.mut = TRUE]
          /\ UNCHANGED status
  /\ UNCHANGED << disk, overflow_checks, loaded_classes, class_arena, classes,
                  interned_strings, heap, thread, steps, last, callsite,
                  loads >>

\* .insert(index, resolved.clone()), the drop of the RefMut, and the return
Insert ==
  /\ status = "running"
  /\ resolver.at = "inserting"
  /\ class_arena' = CacheResolved(Machine, resolver.class, resolver.index,
                                  resolver.resolved).m.class_arena
  /\ resolver' = [resolver EXCEPT
                    !.at = "idle", !.mut = FALSE,
                    !.handles = IF resolver.index \in DOMAIN @ THEN @
                                ELSE MapInsert(@, resolver.index,
                                               resolver.resolved)]
  /\ UNCHANGED << disk, overflow_checks, loaded_classes, classes,
                  interned_strings, heap, thread, status, steps, last,
                  callsite, loads >>

\* run_class up to its loop, then calls of resolve_constant on the pool of
\* the start class: entries of each kind, a class that has no file, a
\* member its class lacks, one class under two names, an index beyond the
\* pool
ResolverNext ==
  \/ RunClass
  \/ \E index \in {1, 9, 17, 12, 19, 22, 29, 48, 50, 56} : Probe(index)
  \/ Match
  \/ Load
  \/ BorrowMut
  \/ Insert

ResolverSpec == ResolverInit /\ [][ResolverNext]_vars

\* every instruction the programs reach is one the model has a handler for
OnlyModelledOpcodes ==
  (status = "running" /\ thread # << >>
     /\ Top(Machine).pc < Len(MethodOf(Machine, Top(Machine)).code)
     /\ ~Fetched.err)
    => HandlerOf(Fetched.op) # "unmodelled"

(***************************************************************************)
(* Properties.  They are stated over the state at the top of the loop and  *)
(* the observation of the iteration that led to it.                        *)
(***************************************************************************)
\* the last iteration executed an instruction of one of the handlers hs
Executed(hs) == last.kind = "exec" /\ HandlerOf(last.d.op) \in hs

\* ... and the handler did not panic
Completed(hs) == Executed(hs) /\ status = "running"

\* the frame that executed the last instruction, as it was before
LastFrame == last.pre[Len(last.pre)]

ConditionalHandlers == {"if_cond", "if_icmp", "if_acmp"}

\* the handler of the branch d found its condition true on frame f
BranchTaken(f, d) ==
  CASE HandlerOf(d.op) = "goto" -> TRUE
    [] HandlerOf(d.op) = "if_cond" -> IfHolds(d.op, Peek(f, 0).v)
    [] HandlerOf(d.op) = "if_icmp" ->
         ICmpHolds(ICmpHandler(d.op), Peek(f, 1).v, Peek(f, 0).v)
    [] HandlerOf(d.op) = "if_acmp" ->
         (d.op = "IfACmpEq") = (Peek(f, 1).v = Peek(f, 0).v)

\* C1: after goto or a taken conditional branch at pc p with offset k, the
\* top frame's pc is exactly p + k, for every k (0 and negative included):
\* the loop never adds the instruction's length on top of a branch.
C1_BranchLandsOnTarget ==
  (Completed({"goto"} \cup ConditionalHandlers)
     /\ BranchTaken(LastFrame, last.d))
    => Top(Machine).pc = last.pc + last.d.x

\* a frame was removed by the last iteration (a return opcode, or the pc at
\* the end of the code) and its caller is now on top
ReturnedToCaller ==
  /\ status = "running"
  /\ last.kind \in {"exec", "pop"}
  /\ Len(thread) < Len(last.pre)
  /\ thread # << >>

\* C2: when a frame pushed by invokespecial at caller pc p is removed, by a
\* return opcode or by its pc reaching the end of its code, the caller
\* resumes at pc p + 3, wherever the callee's pc was (p + 3 included).
C2_CallerResumesAfterInvoke ==
  ReturnedToCaller => Top(Machine).pc = callsite[Len(thread)] + 3

\* invokespecial pushed a frame in the last iteration
CalleePushed ==
  Completed({"invokespecial"}) /\ Len(thread) = Len(last.pre) + 1

\* C3: after invokespecial pushes the callee's frame, the callee is fetched
\* at pc 0, whatever the caller's pc: the loop's advance is never applied to
\* the new frame.  (An invokespecial at pc 0 never pushes a frame: a frame
\* starts at pc 0 with an empty operand stack, so popping the object
\* reference panics.)
C3_CalleeStartsAtZero ==
  /\ CalleePushed => Top(Machine).pc = 0
  /\ (Executed({"invokespecial"}) /\ last.pc = 0) => status = "aborted"

C3_Witness ==
  /\ CalleePushed
  /\ Top(Machine).pc = 0
  /\ Top(Machine).locals[1].t = "Reference"
  /\ Len(Top(Machine).locals) = 2
  /\ Top(Machine).locals[2] = JInt(1)

\* the instructions that are no branch, switch, invoke or return
SequentialHandlers ==
  {"nop", "push_const", "ldc", "load", "store", "stack_op", "pop2", "dup2",
   "math", "i2l", "new_op", "newarray"}
SequentialWithoutArm ==
  {"GetStatic", "PutStatic", "CheckCast", "InstanceOf", "MonitorEnter",
   "MonitorExit", "Wide", "MultiANewArray", "Breakpoint"}

\* the last iteration completed such an instruction, or a conditional
\* branch that was not taken
FellThrough ==
  \/ Completed(SequentialHandlers)
  \/ Completed({"none"}) /\ last.d.op \in SequentialWithoutArm
  \/ Completed(ConditionalHandlers) /\ ~BranchTaken(LastFrame, last.d)

C6_StopsOnlyWhenDrained ==
  /\ status = "finished" => (thread = << >> /\ last.kind = "break")
  /\ last.kind \in {"exec", "decode", "pop"} => last.pre # << >>
  /\ last.kind = "decode" => status = "aborted"
  /\ last.kind = "pop" => status = "running"
  /\ last.kind = "exec" => status \in {"running", "aborted"}
  /\ OnlyModelledOpcodes

C6_Witness ==
  /\ status = "finished"
  /\ thread = << >>
  /\ last.kind = "break"
  /\ steps > 2

\* C7: in every state and for every frame, the operand stack is no deeper
\* than the method's max_stack and the locals are the method's max_locals,
\* and no local index read or written exceeds max_locals - 1.
C7_WithinStackAndLocals ==
  /\ \A i \in 1..Len(thread) :
       /\ Depth(thread[i]) <= MethodOf(Machine, thread[i]).max_stack
       /\ Len(thread[i].locals) = MethodOf(Machine, thread[i]).max_locals
  /\ Completed({"load", "store"}) =>
       LocalIndex(last.d) <= MethodOf(Machine, LastFrame).max_locals - 1

\* C8: after a branch, a switch or a return, the pc of the frame then on
\* top lies within [0, code_length] of its method.
C8_PcWithinCode ==
  (Completed({"goto", "tableswitch", "lookupswitch", "return_value",
              "return_op"} \cup ConditionalHandlers)
     /\ thread # << >>)
    => Top(Machine).pc \in 0..Len(MethodOf(Machine, Top(Machine)).code)

\* C9: if_icmpge pops value2, then value1, and branches to the opcode's pc
\* plus the offset exactly when value1 >= value2, falling through
\* otherwise.  (Offsets 0 and 3 are left out: with them a branch and a fall
\* through cannot be told apart by the pc.)
C9_IfICmpGeBranchesOnGe ==
  (Completed({"if_icmp"}) /\ last.d.op = "IfICmpGe" /\ last.d.x \notin {0, 3})
    => /\ Top(Machine).operand_stack
            = SubSeq(LastFrame.operand_stack, 1, Depth(LastFrame) - 2)
       /\ Top(Machine).pc =
            IF Peek(LastFrame, 1).v >= Peek(LastFrame, 0).v
            THEN last.pc + last.d.x
            ELSE last.pc + 3

\* the arithmetic instruction d finds its operands on frame f
HasOperands(f, d) ==
  CASE d.op \in {"IAdd", "ISub", "IMul", "IDiv"} ->
         Depth(f) >= 2 /\ Peek(f, 0).t = "Int" /\ Peek(f, 1).t = "Int"
    [] d.op \in {"LAdd", "LSub", "LMul", "LDiv"} ->
         Depth(f) >= 2 /\ Peek(f, 0).t = "Long" /\ Peek(f, 1).t = "Long"
    [] d.op = "INeg" -> Depth(f) >= 1 /\ Peek(f, 0).t = "Int"
    [] d.op = "LNeg" -> Depth(f) >= 1 /\ Peek(f, 0).t = "Long"
    [] OTHER -> FALSE

\* the operands of d on f, as limbs: << value1, value2 >>
OperandsL(f, d) ==
  CASE d.op \in {"IAdd", "ISub", "IMul", "IDiv"} ->
         << ToLimbs32(Peek(f, 1).v), ToLimbs32(Peek(f, 0).v) >>
    [] d.op \in {"LAdd", "LSub", "LMul", "LDiv"} ->
         << Peek(f, 1).v, Peek(f, 0).v >>
    [] d.op = "INeg" -> << ToLimbs32(Peek(f, 0).v), ZeroL(2) >>
    [] d.op = "LNeg" -> << Peek(f, 0).v, ZeroL(4) >>

\* the mathematical result reduced modulo 2^32 (2^64) into the signed range;
\* MIN / -1 is 2^31 (2^63), which reduces to MIN
Wrapped(op, a, b) ==
  IF op \in {"IDiv", "LDiv"} /\ OverflowsL("div", a, b) THEN a
  ELSE Arith(op, a, b, FALSE).v

\* C10: iadd, isub, imul, ineg, idiv and their long forms push the
\* mathematical result reduced modulo 2^32 (2^64) into the signed range,
\* for all operands; only a zero divisor aborts.  (Stated for the builds
\* that do not trap overflow; the builds that do also panic wherever
\* + - * or unary - overflows.)
C10_ArithmeticWraps ==
  (~overflow_checks /\ Executed({"math"}) /\ HasOperands(LastFrame, last.d)
     /\ ~(last.d.op \in {"IDiv", "LDiv"}
          /\ OperandsL(LastFrame, last.d)[2]
               = ZeroL(Len(OperandsL(LastFrame, last.d)[2]))))
    => /\ status = "running"
       /\ Peek(Top(Machine), 0) =
            LET r == Wrapped(last.d.op, OperandsL(LastFrame, last.d)[1],
                             OperandsL(LastFrame, last.d)[2])
            IN  IF Len(r) = 2 THEN JInt(FromLimbs32(r)) ELSE JLong(r)

\* the last iteration executed idiv, irem, ldiv or lrem on two operands of
\* the instruction's type, the divisor (the top of the stack) being zero
DividedByZero ==
  /\ Executed({"math"})
  /\ last.d.op \in {"IDiv", "IRem", "LDiv", "LRem"}
  /\ Depth(LastFrame) >= 2
  /\ IF last.d.op \in {"IDiv", "IRem"}
     THEN /\ Peek(LastFrame, 1).t = "Int"
          /\ Peek(LastFrame, 0) = JInt(0)
     ELSE /\ Peek(LastFrame, 1).t = "Long"
          /\ Peek(LastFrame, 0) = JLong(ZeroL(4))

\* C11: idiv, irem, ldiv and lrem with a zero divisor abort the run: nothing
\* is pushed (the frames are as they were), and from an aborted run no
\* further step is taken, so no later instruction is executed and run_class
\* never finishes normally.
C11_ZeroDivisorAborts ==
  /\ [](DividedByZero => (status = "aborted" /\ thread = last.pre))
  /\ [][status # "aborted"]_vars

C11_Witness ==
  /\ DividedByZero
  /\ last.d.op = "LRem"
  /\ Peek(LastFrame, 1).v # ZeroL(4)
  /\ status = "aborted"
  /\ thread = last.pre

\* C12: lushr pops an int shift count s and a long x and pushes the Long
\* that is x, taken as an unsigned 64-bit value, shifted right by s & 63
\* with zeros coming in at the top; nothing else on the stack changes.
C12_LUshrShiftsAll64Bits ==
  (Executed({"math"}) /\ last.d.op = "LUshr" /\ Depth(LastFrame) >= 2
     /\ Peek(LastFrame, 1).t = "Long" /\ Peek(LastFrame, 0).t = "Int")
    => /\ status = "running"
       /\ Depth(Top(Machine)) = Depth(LastFrame) - 1
       /\ Drop(Top(Machine), 1).operand_stack = Drop(LastFrame, 2).operand_stack
       /\ Peek(Top(Machine), 0).t = "Long"
       /\ Peek(Top(Machine), 0).v =
            UShrL(Peek(LastFrame, 1).v, Peek(LastFrame, 0).v % 64)

\* C13: ifnull and ifnonnull pop exactly one reference-typed value and
\* branch to the opcode's pc plus the offset exactly when it is Null
\* (ifnull) or a non-null reference (ifnonnull), falling through otherwise.
\* (Offsets 0 and 3 are left out, as for C9.)
C13_IfNullTestsOneReference ==
  (last.kind = "exec" /\ last.d.op \in {"IfNull", "IfNonNull"}
     /\ Depth(LastFrame) >= 1
     /\ Peek(LastFrame, 0).t \in {"Null", "Reference"}
     /\ last.d.x \notin {0, 3} /\ last.pc + last.d.x >= 0)
    => /\ status = "running"
       /\ Top(Machine).operand_stack = Drop(LastFrame, 1).operand_stack
       /\ Top(Machine).pc =
            IF (last.d.op = "IfNull") = (Peek(LastFrame, 0).t = "Null")
            THEN last.pc + last.d.x
            ELSE last.pc + 3

\* two reference-typed values denote the same heap object, or are both Null
SameReference(value1, value2) ==
  /\ value1.t = value2.t
  /\ value1.t = "Reference" => value1.v = value2.v

\* C14: if_acmpeq and if_acmpne pop two reference-typed values, each Null or
\* a reference to a heap object, and decide by identity: if_acmpeq branches
\* exactly when both are the same object or both are Null, if_acmpne in the
\* opposite case; no such pair of operands aborts the run.  (Offsets 0 and
\* 3 are left out, as for C9.)
C14_IfACmpDecidesByIdentity ==
  (Executed({"if_acmp"}) /\ Depth(LastFrame) >= 2
     /\ Peek(LastFrame, 0).t \in {"Null", "Reference"}
     /\ Peek(LastFrame, 1).t \in {"Null", "Reference"}
     /\ last.d.x \notin {0, 3} /\ last.pc + last.d.x >= 0)
    => /\ status = "running"
       /\ Top(Machine).operand_stack = Drop(LastFrame, 2).operand_stack
       /\ Top(Machine).pc =
            IF (last.d.op = "IfACmpEq")
                 = SameReference(Peek(LastFrame, 1), Peek(LastFrame, 0))
            THEN last.pc + last.d.x
            ELSE last.pc + 3

\* the relation to zero an if<cond> opcode is named after
NamedRelation(op, v) ==
  CASE op = "IfEq" -> v = 0
    [] op = "IfNe" -> ~(v = 0)
    [] op = "IfLt" -> v < 0
    [] op = "IfGe" -> ~(v < 0)
    [] op = "IfGt" -> 0 < v
    [] op = "IfLe" -> ~(0 < v)

\* C15: ifeq, ifne, iflt, ifge, ifgt and ifle pop exactly one int v; the pc
\* becomes the opcode's pc plus the offset exactly when v stands in the
\* named relation to zero, and the opcode's pc plus 3 otherwise; the locals
\* and the rest of the operand stack are unchanged.
C15_IfCondBranchesOnRelation ==
  (Executed({"if_cond"}) /\ Depth(LastFrame) >= 1
     /\ Peek(LastFrame, 0).t = "Int" /\ last.pc + last.d.x >= 0)
    => /\ status = "running"
       /\ Top(Machine).operand_stack = Drop(LastFrame, 1).operand_stack
       /\ Top(Machine).locals = LastFrame.locals
       /\ Top(Machine).pc =
            IF NamedRelation(last.d.op, Peek(LastFrame, 0).v)
            THEN last.pc + last.d.x
            ELSE last.pc + 3

\* the offset a switch instruction d selects for key: tableswitch by
\* position (d.y = << low, high >>), lookupswitch by a pair that matches,
\* the default offset d.x otherwise
SelectedOffsets(d, key) ==
  IF d.op = "TableSwitch"
  THEN IF d.y[1] <= key /\ key <= d.y[2]
       THEN {d.tbl[(key - d.y[1]) + 1]}
       ELSE {d.x}
  ELSE IF \E i \in 1..Len(d.tbl) : d.tbl[i][1] = key
       THEN {d.tbl[i][2] : i \in {j \in 1..Len(d.tbl) : d.tbl[j][1] = key}}
       ELSE {d.x}

\* the last iteration executed the switch instruction of handler h on an
\* int key, with every target it may select at or after pc 0
SwitchedOnInt(h) ==
  /\ Executed({h})
  /\ Depth(LastFrame) >= 1
  /\ Peek(LastFrame, 0).t = "Int"
  /\ \A o \in SelectedOffsets(last.d, Peek(LastFrame, 0).v) : last.pc + o >= 0

\* C16: tableswitch at pc p pops one int key; with low <= key <= high the
\* pc becomes p + jump_offsets[key - low], otherwise p + default, for every
\* key and every offset (0 included).
C16_TableSwitchSelectsByIndex ==
  SwitchedOnInt("tableswitch")
    => /\ status = "running"
       /\ Top(Machine).operand_stack = Drop(LastFrame, 1).operand_stack
       /\ Top(Machine).pc - last.pc
            \in SelectedOffsets(last.d, Peek(LastFrame, 0).v)

\* C17: lookupswitch at pc p pops one int key; if a (match, offset) pair
\* has match = key the pc becomes p + that pair's offset, and if none has,
\* p + default; exactly one int is popped either way.
C17_LookupSwitchSelectsByMatch ==
  SwitchedOnInt("lookupswitch")
    => /\ status = "running"
       /\ Top(Machine).operand_stack = Drop(LastFrame, 1).operand_stack
       /\ Top(Machine).pc - last.pc
            \in SelectedOffsets(last.d, Peek(LastFrame, 0).v)

\* two values, and two operand stacks, are equal
SameValue(a, b) == a.t = b.t /\ a.v = b.v
SameStack(s, t) ==
  /\ Len(s) = Len(t)
  /\ \A i \in 1..Len(s) : SameValue(s[i], t[i])

\* C18: after dup2 on a stack whose top is a Long or a Double the stack is
\* one entry deeper and its top two entries equal the original top; pop2
\* removes both entries when the top is category 1 over category 1, and only
\* the top entry when it is category 2; the entries below are unchanged.
C18_Category2DupAndPop ==
  /\ (Executed({"dup2"}) /\ Depth(LastFrame) >= 1
        /\ is_category2(Peek(LastFrame, 0)))
       => /\ status = "running"
          /\ Depth(Top(Machine)) = Depth(LastFrame) + 1
          /\ SameValue(Peek(Top(Machine), 0), Peek(LastFrame, 0))
          /\ SameValue(Peek(Top(Machine), 1), Peek(LastFrame, 0))
          /\ SameStack(Drop(Top(Machine), 2).operand_stack,
                       Drop(LastFrame, 1).operand_stack)
  /\ (Executed({"pop2"}) /\ Depth(LastFrame) >= 2
        /\ ~is_category2(Peek(LastFrame, 0))
        /\ ~is_category2(Peek(LastFrame, 1)))
       => /\ status = "running"
          /\ SameStack(Top(Machine).operand_stack,
                       Drop(LastFrame, 2).operand_stack)
  /\ (Executed({"pop2"}) /\ Depth(LastFrame) >= 1
        /\ is_category2(Peek(LastFrame, 0)))
       => /\ status = "running"
          /\ SameStack(Top(Machine).operand_stack,
                       Drop(LastFrame, 1).operand_stack)

C18_Witness ==
  /\ Completed({"pop2"})
  /\ Depth(LastFrame) = 3
  /\ Peek(LastFrame, 0).t = "Long"
  /\ SameValue(Peek(LastFrame, 1), Peek(LastFrame, 0))
  /\ Depth(Top(Machine)) = 2

\* the resolution cache of class c among the classes ca
CacheOf(ca, c) == ca[c].constant_pool.resolved_constants

\* every entry of every cache is still there, with the same result, after
\* the step
CacheEntriesKept ==
  \A c \in 1..Len(class_arena) :
    /\ c <= Len(class_arena')
    /\ \A i \in DOMAIN CacheOf(class_arena, c) :
         /\ i \in DOMAIN CacheOf(class_arena', c)
         /\ CacheOf(class_arena', c)[i] = CacheOf(class_arena, c)[i]

\* a step changes no cache but that of the class whose code is executing
OtherCachesUntouched ==
  \A c \in 1..Len(class_arena) :
    (thread = << >> \/ c # Top(Machine).class)
      => CacheOf(class_arena', c) = CacheOf(class_arena, c)

PrePopulatedNames ==
  {<< "[", t >> : t \in {"B", "C", "D", "F", "I", "J", "S", "Z"}}
    \cup {<< "java", "/", "lang", "/", w >> : w \in {"Object", "String", "Class"}}

\* the calls of load_class so far that read and decoded a class file
Decodings == {k \in 1..Len(loads) : loads[k].read}

\* every name of the registry is still there, with the same handle, after
\* the step
HandlesKept ==
  \A n \in DOMAIN loaded_classes :
    n \in DOMAIN loaded_classes' /\ loaded_classes'[n] = loaded_classes[n]

\* C20: across the calls of load_class, the first successful load of a name
\* decodes the class file once and inserts one handle, and every later load
\* of that name returns that handle without decoding again; the eleven
\* pre-populated names are in the registry from construction, are never
\* decoded, and no handle of the registry ever changes.
C20_LoadsOncePerName ==
  /\ [](/\ Cardinality(PrePopulatedNames) = 11
        /\ \A n \in PrePopulatedNames :
             /\ n \in DOMAIN loaded_classes
             /\ loaded_classes[n] = load_default_classes[n]
        /\ \A k \in Decodings :
             /\ loads[k].name \notin PrePopulatedNames
             /\ \A j \in 1..(k - 1) : loads[j].name # loads[k].name
        /\ \A k \in 1..Len(loads) :
             \/ k \in Decodings
             \/ loads[k].name \in PrePopulatedNames
             \/ \E j \in 1..(k - 1) : loads[j].name = loads[k].name
        /\ DOMAIN loaded_classes =
             PrePopulatedNames \cup {loads[k].name : k \in Decodings}
        /\ \A n \in DOMAIN loaded_classes :
             /\ load_class(Machine, n).res = "ok"
             /\ load_class(Machine, n).class = loaded_classes[n]
             /\ load_class(Machine, n).m.loaded_classes = loaded_classes
             /\ load_class(Machine, n).m.class_arena = class_arena
             /\ ~load_class(Machine, n).m.loads[Len(loads) + 1].read
        /\ \A n \in DOMAIN loaded_classes, o \in DOMAIN loaded_classes :
             loaded_classes[n] = loaded_classes[o] => n = o)
  /\ [][HandlesKept]_vars

\* Main and Other were each decoded once and Main was loaded again, by name,
\* from the code of Other
C20_Witness ==
  /\ Cardinality(Decodings) = 2
  /\ Cardinality(DOMAIN loaded_classes) = 13
  /\ \E j \in Decodings, k \in 1..Len(loads) :
       /\ j < k
       /\ loads[j].name = StartClass
       /\ loads[k].name = StartClass
       /\ ~loads[k].read
  /\ thread # << >>
  /\ Top(Machine).class = loaded_classes[OtherClass]
  /\ status = "running"

\* the text of the String entry the last instruction named, << >> of a
\* one-element tuple if it named one
StringConstant ==
  LET cp == class_arena[LastFrame.class].constant_pool.cp
      text(e) ==
        IF e.tag = "String" /\ get_utf8(cp, e.string_index).ok
        THEN << get_utf8(cp, e.string_index).v >> ELSE << >>
  IN  IF last.d.x + 1 \in DOMAIN cp THEN text(cp[last.d.x + 1]) ELSE << >>

\* C21: string constants are interned by text.  An ldc of a String constant
\* pushes the object the table maps its text to; two texts are never mapped
\* to one object; the table is empty before the run, an entry is never
\* removed and the object of a text never changes.  So two ldc of equal
\* text, in any frames, classes and pool indices, push the same object, and
\* of different texts different objects.
C21_StringsInternedByText ==
  /\ []((Completed({"ldc"}) /\ StringConstant # << >>)
          => /\ StringConstant[1] \in DOMAIN interned_strings
             /\ Peek(Top(Machine), 0).t = "Reference"
             /\ Peek(Top(Machine), 0).v = interned_strings[StringConstant[1]])
  /\ [](\A s, t \in DOMAIN interned_strings :
          interned_strings[s] = interned_strings[t] => s = t)
  /\ [](status = "new" => interned_strings = EmptyMap)
  /\ [][\A s \in DOMAIN interned_strings :
          /\ s \in DOMAIN interned_strings'
          /\ interned_strings'[s] = interned_strings[s]]_vars

\* main has pushed the text "Main" from pool entries 17 and 24, "main" from
\* entry 23 and "Main" again: three times one object, and another
C21_Witness ==
  /\ Completed({"ldc"})
  /\ last.d.x = 17
  /\ Depth(Top(Machine)) = 4
  /\ Cardinality(DOMAIN interned_strings) = 2
  /\ Peek(Top(Machine), 0) = Peek(Top(Machine), 3)
  /\ Peek(Top(Machine), 2) = Peek(Top(Machine), 3)
  /\ Peek(Top(Machine), 1).t = "Reference"
  /\ Peek(Top(Machine), 1).v # Peek(Top(Machine), 0).v

\* the pool entry the last instruction named, in the pool of its class
NamedEntry ==
  LET cp == class_arena[LastFrame.class].constant_pool.cp
  IN  IF last.d.x + 1 \in DOMAIN cp THEN cp[last.d.x + 1] ELSE [tag |-> "None"]

\* C22: ldc2_w of a Long or Double entry pushes one category-2 value, the
\* constant, and execution continues with the next instruction.
C22_Ldc2WPushesWideConstant ==
  (Executed({"ldc"}) /\ last.d.op = "Ldc2W"
     /\ NamedEntry.tag \in {"Long", "Double"})
    => /\ status = "running"
       /\ Top(Machine).pc = last.pc + 3
       /\ Depth(Top(Machine)) = Depth(LastFrame) + 1
       /\ Peek(Top(Machine), 0).t = NamedEntry.tag
       /\ Peek(Top(Machine), 0).v = NamedEntry.bytes

\* the number of arguments a method descriptor declares: the primitive type
\* letters and the L of each class type between the parentheses
DeclaredArguments(descriptor) ==
  LET close == CHOOSE j \in 1..Len(descriptor) : descriptor[j] = ")"
  IN  Cardinality({j \in 2..(close - 1) :
                     descriptor[j] \in {"B", "C", "D", "F", "I", "J", "S", "Z",
                                        "L"}})

\* the frame invokespecial pushed, and the number of arguments of its method
Callee == Top(Machine)
CalleeArguments == DeclaredArguments(MethodOf(Machine, Callee).descriptor)

\* C23: invokespecial of a method with N arguments pops N values and then
\* the object reference from the caller's stack and pushes one frame; local
\* 0 of the frame is the object reference, and local i the i-th declared
\* argument, i.e. the value that was N - i below the top of the caller's
\* stack (the top itself for the last argument).
C23_InvokeSpecialPassesArguments ==
  Completed({"invokespecial"})
    => /\ Len(thread) = Len(last.pre) + 1
       /\ \A k \in 1..(Len(last.pre) - 1) : thread[k] = last.pre[k]
       /\ Depth(LastFrame) >= CalleeArguments + 1
       /\ SameStack(thread[Len(last.pre)].operand_stack,
                    SubSeq(LastFrame.operand_stack, 1,
                           Depth(LastFrame) - CalleeArguments - 1))
       /\ Len(Callee.locals) >= CalleeArguments + 1
       /\ Callee.locals[1].t = "Reference"
       /\ SameValue(Callee.locals[1], Peek(LastFrame, CalleeArguments))
       /\ \A i \in 1..CalleeArguments :
            SameValue(Callee.locals[i + 1],
                      Peek(LastFrame, CalleeArguments - i))

\* f(II)V was entered with its two arguments: 1, pushed first, in local 1
\* and 2, pushed last, in local 2
C23_Witness ==
  /\ Completed({"invokespecial"})
  /\ CalleeArguments = 2
  /\ Callee.locals[1].t = "Reference"
  /\ Callee.locals[2] = JInt(1)
  /\ Callee.locals[3] = JInt(2)
  /\ Peek(LastFrame, 0) = JInt(2)

\* the local index of the i-th declared argument of a descriptor when a J
\* or D argument takes two indices and any other one: local 0 is the object
\* reference
ArgumentLocal(descriptor, i) ==
  LET close == CHOOSE j \in 1..Len(descriptor) : descriptor[j] = ")"
      at == {j \in 2..(close - 1) :
               descriptor[j] \in {"B", "C", "D", "F", "I", "J", "S", "Z", "L"}}
      before == {j \in at : Cardinality({k \in at : k < j}) < i - 1}
  IN  i + Cardinality({j \in before : descriptor[j] \in {"J", "D"}})

\* C24: invokespecial gives a Long or Double argument two consecutive local
\* indices of the callee: each argument is found at the local index that
\* counts two for every J or D declared before it.
C24_WideArgumentsTakeTwoLocals ==
  Completed({"invokespecial"})
    => \A i \in 1..CalleeArguments :
         LET index == ArgumentLocal(MethodOf(Machine, Callee).descriptor, i)
         IN  /\ index + 1 \in DOMAIN Callee.locals
             /\ SameValue(Callee.locals[index + 1],
                          Peek(LastFrame, CalleeArguments - i))

\* the class file run_class reads, and the index the class-file format
\* gives its j-th pool entry: a Long or Double takes two indices
MainFile == disk[ClassPath(StartClass)]
FileIndex(j) ==
  j + Cardinality({i \in 1..(j - 1) :
                     MainFile.cp_info[i].tag \in {"Long", "Double"}})

\* the decoded pool of the class has every entry of the file at its
\* file-format index and as many index slots as the file counts
KeepsFileIndices(cp) ==
  /\ \A j \in 1..Len(MainFile.cp_info) :
       /\ FileIndex(j) + 1 \in DOMAIN cp
       /\ cp[FileIndex(j) + 1].tag = MainFile.cp_info[j].tag
       /\ cp[FileIndex(j) + 1] = MainFile.cp_info[j]
  /\ Len(cp) = MainFile.constant_pool_count

\* C25: a class file with a Long or Double in its pool is decoded with
\* every entry at its file-format index: the index after the Long is left
\* unused, the next entry is two past it, and the pool has
\* constant_pool_count - 1 indices after index 0.
C25_WideEntriesKeepIndices ==
  (/\ status # "new"
   /\ ClassPath(StartClass) \in DOMAIN disk
   /\ \E j \in 1..Len(MainFile.cp_info) :
        MainFile.cp_info[j].tag \in {"Long", "Double"})
    => /\ StartClass \in DOMAIN loaded_classes
       /\ KeepsFileIndices(
            class_arena[loaded_classes[StartClass]].constant_pool.cp)

\* the last instruction was an element load or store of an array of its
\* kind: the reference, the int index and, for a store, a value of the
\* element type were on the stack
ArrayHandlers == {"iaload", "aaload", "iastore", "aastore"}
AccessIsStore == HandlerOf(last.d.op) \in {"iastore", "aastore"}
AccessedIndex == Peek(LastFrame, IF AccessIsStore THEN 1 ELSE 0)
AccessedArray == Peek(LastFrame, IF AccessIsStore THEN 2 ELSE 1)
ArrayAccessed ==
  /\ Executed(ArrayHandlers)
  /\ Depth(LastFrame) >= (IF AccessIsStore THEN 3 ELSE 2)
  /\ AccessedIndex.t = "Int"
  /\ AccessedArray.t = "Reference"
  /\ heap[AccessedArray.v].kind =
       (IF HandlerOf(last.d.op) \in {"iaload", "iastore"}
        THEN "ArrayInt" ELSE "ArrayRef")
  /\ AccessIsStore
       => Peek(LastFrame, 0).t =
            (IF HandlerOf(last.d.op) = "iastore" THEN "Int" ELSE "Reference")

\* C26: an element load or store of an array of length L succeeds for an
\* index in [0, L) and aborts the run for any other index, negative ones
\* included, with every array as it was; no step changes the length of an
\* array.
C26_ArrayBoundsChecked ==
  /\ [](ArrayAccessed
          => IF /\ 0 <= AccessedIndex.v
                /\ AccessedIndex.v < Len(heap[AccessedArray.v].elems)
             THEN status = "running"
             ELSE status = "aborted")
  /\ [][/\ status' = "aborted" => heap' = heap
        /\ \A r \in 1..Len(heap) :
             /\ r \in 1..Len(heap')
             /\ Len(heap'[r].elems) = Len(heap[r].elems)]_vars

\* the step is a completed instruction of handler h
StepCompletes(h) ==
  /\ steps' = steps + 1
  /\ last'.kind = "exec"
  /\ HandlerOf(last'.d.op) = h
  /\ status' = "running"

\* the field the FieldRef entry of the step's instruction names: the Field
\* that the class the entry names keeps under the entry's
\* "name:descriptor", and the "name:descriptor" of that Field, read from
\* the pool of the executing class and the registry after the step
StepField ==
  LET cp == class_arena[Top(Machine).class].constant_pool.cp
      e == cp[last'.d.x + 1]
      nt == get_name_and_type(cp, e.name_and_type_index)
      class == class_arena'[loaded_classes'[get_class_name(cp, e.class_index).v]]
      field == class.fields[FormatKey(nt.v[1], nt.v[2])]
  IN  FormatKey(field.name, field.descriptor)

\* the step leaves every field of every object as it was and adds none,
\* but for field name of object o
FieldsKeptBut(o, name) ==
  \A r \in 1..Len(heap) :
    /\ r \in 1..Len(heap')
    /\ \A k \in DOMAIN heap[r].fields :
         (r = o /\ k = name)
           \/ /\ k \in DOMAIN heap'[r].fields
              /\ SameValue(heap'[r].fields[k], heap[r].fields[k])
    /\ \A k \in DOMAIN heap'[r].fields :
         (r = o /\ k = name) \/ k \in DOMAIN heap[r].fields

NamedArrayClass ==
  << "[", "L" >>
    \o get_class_name(class_arena[LastFrame.class].constant_pool.cp,
                      last.d.x).v
    \o << ";" >>

\* two reference arrays whose classes have one name have one class handle
ArrayClassesShared ==
  \A r, q \in 1..Len(heap) :
    (/\ heap[r].kind = "ArrayRef"
     /\ heap[q].kind = "ArrayRef"
     /\ class_arena[heap[r].class].name = class_arena[heap[q].class].name)
      => heap[r].class = heap[q].class

\* C28: the array an anewarray for element class C pushes has the class the
\* registry holds under "[LC;", which is in the registry after the
\* instruction; so two arrays made by anewarray for one C have the identical
\* class handle.
C28_ReferenceArrayClassRegistered ==
  /\ Completed({"anewarray"})
       => /\ NamedArrayClass \in DOMAIN loaded_classes
          /\ heap[Peek(Top(Machine), 0).v].class = loaded_classes[NamedArrayClass]
  /\ ArrayClassesShared

\* the initial value of a field by the first letter of its descriptor
InitialValue(descriptor) ==
  CASE descriptor[1] \in {"B", "S", "I", "C", "Z"} -> JInt(0)
    [] descriptor[1] = "J" -> JLong(<< 0, 0, 0, 0 >>)
    [] descriptor[1] = "F" -> JFloat(0)
    [] descriptor[1] = "D" -> JDouble(0)
    [] descriptor[1] \in {"L", "["} -> JNull

\* the object the step's new has pushed, and the class the registry holds
\* under the name the instruction's pool index gives
NewObject == heap'[thread'[Len(thread')].operand_stack[Depth(Top(Machine)) + 1].v]
NewClass ==
  class_arena'[loaded_classes'[
    get_class_name(class_arena[Top(Machine).class].constant_pool.cp,
                   last'.d.x).v]]

\* C29: new pushes a reference to a plain object that did not exist before
\* and leaves the others as they were; the object has one field for each
\* entry of its class's field map, with Int 0 for a B, S, I, C or Z
\* descriptor, Long 0 for J, zero for F and D, Null for L and [.  A getfield
\* on a plain object of a field its class declares, through a FieldRef that
\* names that class, does not fault.
C29_NewObjectHasDefaultFields ==
  /\ [][StepCompletes("new_op")
          => /\ Len(heap') = Len(heap) + 1
             /\ \A r \in 1..Len(heap) : heap'[r] = heap[r]
             /\ thread'[Len(thread')].operand_stack[Depth(Top(Machine)) + 1] =
                  JReference(Len(heap'))
             /\ NewObject.kind = "Object"
             /\ class_arena'[NewObject.class] = NewClass
             /\ DOMAIN NewObject.fields = DOMAIN NewClass.fields
             /\ \A k \in DOMAIN NewClass.fields :
                  SameValue(NewObject.fields[k],
                            InitialValue(NewClass.fields[k].descriptor))]_vars
  /\ []((/\ Executed({"getfield"})
         /\ Depth(LastFrame) >= 1
         /\ Peek(LastFrame, 0).t = "Reference"
         /\ heap[Peek(LastFrame, 0).v].kind = "Object"
         /\ NamedEntry.tag = "FieldRef"
         /\ get_class_name(class_arena[LastFrame.class].constant_pool.cp,
                           NamedEntry.class_index).ok
         /\ get_class_name(class_arena[LastFrame.class].constant_pool.cp,
                           NamedEntry.class_index).v
              = class_arena[heap[Peek(LastFrame, 0).v].class].name
         /\ get_name_and_type(class_arena[LastFrame.class].constant_pool.cp,
                              NamedEntry.name_and_type_index).ok
         /\ FormatKey(
              get_name_and_type(class_arena[LastFrame.class].constant_pool.cp,
                                NamedEntry.name_and_type_index).v[1],
              get_name_and_type(class_arena[LastFrame.class].constant_pool.cp,
                                NamedEntry.name_and_type_index).v[2])
              \in DOMAIN class_arena[heap[Peek(LastFrame, 0).v].class].fields)
          => status = "running")

\* the last instruction was a getfield or putfield with its operands on the
\* stack, so that it went on to resolve its FieldRef entry
FieldRefResolved ==
  /\ Executed({"getfield", "putfield"})
  /\ IF HandlerOf(last.d.op) = "getfield"
     THEN Depth(LastFrame) >= 1 /\ Peek(LastFrame, 0).t = "Reference"
     ELSE Depth(LastFrame) >= 2 /\ Peek(LastFrame, 1).t = "Reference"
  /\ NamedEntry.tag = "FieldRef"

\* the class a FieldRef entry names and the "name:descriptor" it names, read
\* from the pool, and the field map of that class: the one in the registry,
\* or the one its class file declares
RefClassName ==
  get_class_name(class_arena[LastFrame.class].constant_pool.cp,
                 NamedEntry.class_index).v
RefKey ==
  LET nt == get_name_and_type(class_arena[LastFrame.class].constant_pool.cp,
                              NamedEntry.name_and_type_index)
  IN  FormatKey(nt.v[1], nt.v[2])
FieldsOfClass(name) ==
  IF name \in DOMAIN loaded_classes
  THEN class_arena[loaded_classes[name]].fields
  ELSE from_classfile(read_file(ClassPath(name)).v).v.fields
Declares(name, key) ==
  /\ name \in DOMAIN loaded_classes \/ ClassPath(name) \in DOMAIN disk
  /\ key \in DOMAIN FieldsOfClass(name)

\* C30: resolving a FieldRef whose class has no field of that name and
\* descriptor fails, also when the super-class of that class declares the
\* field, and leaves no entry for the index in the resolution cache.
C30_MissingFieldFailsUncached ==
  (FieldRefResolved /\ ~Declares(RefClassName, RefKey))
    => /\ status = "aborted"
       /\ last.d.x \notin DOMAIN CacheOf(class_arena, LastFrame.class)

\* main's getfield named x:I of Other, which declares no field and extends
\* Main, which declares x:I, on a Main object: the run has aborted
C30_Witness ==
  /\ FieldRefResolved
  /\ last.d.x = 29
  /\ RefClassName = OtherClass
  /\ ClassPath(OtherClass) \in DOMAIN disk
  /\ ~Declares(OtherClass, RefKey)
  /\ disk[ClassPath(OtherClass)].super_class = 2
  /\ Declares(StartClass, RefKey)
  /\ class_arena[heap[Peek(LastFrame, 0).v].class].name = StartClass
  /\ status = "aborted"

\* C32: iinc with index n and signed constant c changes local n from Int v
\* to Int v + c wrapped to 32 bits and leaves the operand stack and every
\* other local as they were; on a local that holds no Int it aborts and
\* the local is unchanged
C32_IIncAddsInPlace ==
  (Executed({"iinc"}) /\ last.d.x < Len(LastFrame.locals))
    => IF LastFrame.locals[last.d.x + 1].t = "Int"
       THEN /\ status = "running"
            /\ Top(Machine).locals =
                 [LastFrame.locals EXCEPT ![last.d.x + 1] =
                    JInt(FromLimbs32(Wrapped("IAdd", ToLimbs32(@.v),
                                             ToLimbs32(last.d.y))))]
            /\ SameStack(Top(Machine).operand_stack, LastFrame.operand_stack)
       ELSE /\ status = "aborted"
            /\ Top(Machine).locals = LastFrame.locals

\* the last iteration executed dup2_x2 on a stack whose top value1 is
\* category 2 and whose next two entries value2 and value3 are category 1
Dup2X2OverTwoSingles ==
  /\ Executed({"dup2_x2"})
  /\ Depth(LastFrame) >= 3
  /\ is_category2(Peek(LastFrame, 0))
  /\ ~is_category2(Peek(LastFrame, 1))
  /\ ~is_category2(Peek(LastFrame, 2))

\* C33: dup2_x2 on ..., value3, value2, value1 with value1 of category 2
\* and value2, value3 of category 1 leaves ..., value1, value3, value2,
\* value1: three entries consumed, four pushed, and the entries below
\* value3 neither popped nor moved
C33_Dup2X2FormTwo ==
  Dup2X2OverTwoSingles
    => /\ status = "running"
       /\ SameStack(Top(Machine).operand_stack,
                    Drop(LastFrame, 3).operand_stack
                      \o << Peek(LastFrame, 0), Peek(LastFrame, 2),
                            Peek(LastFrame, 1), Peek(LastFrame, 0) >>)

\* C34: in every class of the registry every key of the field map is the
\* name, ":" and the descriptor of the Field it maps to, the built-in
\* java/lang/String with its key "value:[C" included, so that getfield and
\* putfield address the entry that construction and interning initialised
C34_FieldKeysAreNameAndDescriptor ==
  \A name \in DOMAIN loaded_classes :
    \A k \in DOMAIN class_arena[loaded_classes[name]].fields :
      LET f == class_arena[loaded_classes[name]].fields[k]
      IN  k = FormatKey(f.name, f.descriptor)

\* C35: every entry of the registry is keyed by the binary name (with "/",
\* no "."), so that the dotted and the slashed name of one class file are
\* one entry: loading the file under one name and then under the other
\* gives the identical handle, and the file is decoded once
C35_RegistryKeyedByBinaryName ==
  /\ \A name \in DOMAIN loaded_classes :
       \A i \in 1..Len(name) : name[i] # "."
  /\ \A a, b \in DOMAIN loaded_classes :
       ClassPath(a) = ClassPath(b) => loaded_classes[a] = loaded_classes[b]
  /\ \A i, j \in 1..Len(loads) :
       (loads[i].read /\ loads[j].read
          /\ ClassPath(loads[i].name) = ClassPath(loads[j].name)) => i = j

\* the frames f and g are the same activation in the same state
SameFrame(f, g) ==
  /\ f.class = g.class
  /\ f.method = g.method
  /\ f.pc = g.pc
  /\ SameStack(f.locals, g.locals)
  /\ SameStack(f.operand_stack, g.operand_stack)

\* what the last iteration was: "pop" for the removal of a frame whose pc
\* is at or past the end of its code, the handler of its instruction
\* otherwise
LastStep == IF last.kind = "pop" THEN "pop" ELSE HandlerOf(last.d.op)

\* C36: the depth of the frame stack grows by one in an invokespecial
\* step, shrinks by one in a step of a return opcode and in the removal of
\* a top frame whose pc is at or past the end of its code, and is left
\* alone by every other step, which also leaves the frames what they were
\* and in their order (those below the top untouched)
C36_DepthChangesByCallAndReturn ==
  (last.kind \in {"exec", "pop"} /\ status = "running")
    => /\ Len(thread) =
            Len(last.pre)
              + (CASE LastStep = "invokespecial" -> 1
                   [] LastStep \in {"return_op", "return_value", "pop"} -> -1
                   [] OTHER -> 0)
       /\ \A k \in 1..Len(thread) :
            k <= Len(last.pre)
              => /\ thread[k].class = last.pre[k].class
                 /\ thread[k].method = last.pre[k].method
       /\ LastStep \notin {"invokespecial", "return_op", "return_value", "pop"}
            => \A k \in 1..(Len(thread) - 1) : SameFrame(thread[k], last.pre[k])

\* a return from a callee to its caller
C36_Witness ==
  /\ Completed({"return_op", "return_value"})
  /\ Len(last.pre) = 2
  /\ Len(thread) = 1

\* C37: from the step after the invokespecial that pushed a callee until
\* the step that removes that callee, the caller's frame keeps its locals,
\* its operand stack and its pc: a step leaves every frame that is below
\* the top before it and after it as it was
C37_CallerFrozenDuringCall ==
  last.kind \in {"exec", "pop"}
    => \A k \in 1..(Len(thread) - 1) :
         k < Len(last.pre) => SameFrame(thread[k], last.pre[k])

\* an instruction of a callee changed the callee's frame
C37_Witness ==
  /\ Completed({"push_const", "load", "store", "math", "stack_op"})
  /\ Len(last.pre) = 2
  /\ Len(thread) = 2
  /\ ~SameStack(Top(Machine).operand_stack, LastFrame.operand_stack)

\* the opcodes that decode and have no arm in execute_opcode's match
HandlerlessOpcodes ==
  {"GetStatic", "PutStatic", "InvokeVirtual", "InvokeStatic",
   "InvokeInterface", "InvokeDynamic", "AThrow", "CheckCast", "InstanceOf",
   "MonitorEnter", "MonitorExit", "Wide", "MultiANewArray", "GotoW", "JsrW",
   "Breakpoint"}

LoadedNames ==
  {StartClass, OtherClass, << "Missing" >>, << "p", ".", "Other" >>,
   << "p", "/", "Other" >>, ObjectName}

\* C39: a load_class(name) that fails, the file missing or not decodable,
\* leaves the registry as it was before the call, no entry added under the
\* name and none changed, so that a load of the same name after it goes to
\* the file again
C39_FailedLoadLeavesRegistry ==
  \A name \in LoadedNames :
    LET first == load_class(Machine, name)
        later == load_class(first.m, name)
    IN  first.res # "ok"
          => /\ first.m.loaded_classes = loaded_classes
             /\ first.m.class_arena = class_arena
             /\ name \notin DOMAIN first.m.loaded_classes
             /\ later.res = first.res
             /\ later.m.loaded_classes = loaded_classes

\* run_class has failed to load a start class whose file does not decode,
\* and a load after it fails in the decoder again
C39_Witness ==
  /\ status = "aborted"
  /\ thread = << >>
  /\ ClassPath(StartClass) \in DOMAIN disk
  /\ load_class(Machine, StartClass).res = "err"
  /\ load_class(load_class(Machine, StartClass).m, StartClass).res = "err"

\* run_class has reached an empty frame stack or has aborted
Ended == status # "new" /\ (thread = << >> \/ status = "aborted")

\* the last iteration executed an instruction the programs of C40 do not
\* have: an invoke, or a branch or switch one of whose offsets is not
\* strictly positive
InvokeOrBackwardBranch ==
  /\ last.kind = "exec"
  /\ \/ last.d.op \in {"InvokeSpecial", "InvokeVirtual", "InvokeStatic",
                       "InvokeInterface", "InvokeDynamic"}
     \/ /\ \/ HandlerOf(last.d.op) \in {"if_cond", "if_icmp", "if_acmp", "goto",
                                        "tableswitch", "lookupswitch"}
           \/ last.d.op \in {"Jsr", "IfNull", "IfNonNull", "GotoW", "JsrW"}
        /\ last.d.x <= 0
     \/ /\ HandlerOf(last.d.op) = "tableswitch"
        /\ \E i \in 1..Len(last.d.tbl) : last.d.tbl[i] <= 0
     \/ /\ HandlerOf(last.d.op) = "lookupswitch"
        /\ \E i \in 1..Len(last.d.tbl) : last.d.tbl[i][2] <= 0

\* C40: an iteration of the loop that does not abort changes the pc of
\* the top frame, pops a frame or pushes one; and a run that executes no
\* invoke and no branch or switch with an offset that is not strictly
\* positive reaches an empty frame stack or aborts
C40_LoopMakesProgress ==
  /\ [][(steps' = steps + 1 /\ status' = "running")
          => \/ Len(thread') # Len(thread)
             \/ thread'[Len(thread')].pc # Top(Machine).pc]_vars
  /\ <>(Ended \/ InvokeOrBackwardBranch)

\* a branch with a positive offset was taken: the handler moved pc forward
C40_Witness ==
  /\ Completed({"if_cond", "if_icmp", "if_acmp", "goto", "tableswitch",
                "lookupswitch"})
  /\ ~InvokeOrBackwardBranch
  /\ Top(Machine).pc > last.pc + last.d.len

====
